---- MODULE Spec2Model ----
(***************************************************************************)
(* A model of the ingestion pipeline of enzoe-price-service:               *)
(*   - EntsoeClient::fetch_day_ahead_prices(_with_retry)  (SpecRetry)      *)
(*   - PriceRepository::upsert_prices                     (SpecUpsert)     *)
(*   - TokenBucketRateLimiter                             (SpecBucket)     *)
(*   - FetcherService (fanout, fetch log, batch write)    (Spec, SpecLogUp,*)
(*                                                         SpecFanout)     *)
(*   - FetcherService::backfill_missing, find_gaps        (SpecBackfill)   *)
(*   - the transaction of upsert_prices                   (SpecTx)         *)
(*   - overlapping jobs, upsert order                     (SpecOverlap,    *)
(*                                                         SpecOrder)      *)
(*   - extract_prices, validate_and_fill_period,                           *)
(*     aggregate_to_hourly                                (SpecNormalize)  *)
(*   - PriceFetchScheduler                                (SpecSched)      *)
(*   - concurrent fetch_day_ahead_prices calls behind the                  *)
(*     rate limiter                                       (SpecClient,     *)
(*                                                         SpecClientFair) *)
(*   - successive retry ticks                             (SpecTicks)      *)
(* Every specification runs over the same variables; the variables a       *)
(* specification does not use keep their initial values.                   *)
(***************************************************************************)
EXTENDS Integers, Sequences, FiniteSets, TLC

VARIABLES
    \* ---- one call of fetch_day_ahead_prices_with_retry (client.rs:244-284)
    rPc,          \* "idle" | "attempt" | "sleep" | "done"
    rZone,        \* the zone argument: [code, tz_ok]
    attempt,      \* the loop variable `attempt` (0-based)
    last_error,   \* Option<EntsoeError>
    rResult,      \* the value returned, None until the call returns
    events,       \* what the call did so far: fetch calls and backoff sleeps
    exchange,     \* the upstream's answer to the latest attempt, None before it
    \* ---- electricity_prices and one repeated upsert (repository.rs:65-111)
    table,        \* the rows of electricity_prices (one per key)
    table0,       \* the table before the first upsert of `batch`
    batch,        \* the &[Price] argument
    nUpserts,     \* how many times `batch` has been upserted
    lastUpsert,   \* the Result of the last upsert_prices call
    \* ---- TokenBucketRateLimiter behind its mutex (client.rs:19-96)
    now,          \* Instant::now(), in seconds
    max_tokens,   \* self.max_tokens, in 1/60 of a token
    tokens,       \* self.tokens, in 1/60 of a token
    last_refill,  \* self.last_refill
    acquired,     \* the instants at which try_acquire returned None
    lastAcquire,  \* the answer of the last try_acquire
    \* ---- the zone registry and one FetcherService operation (service.rs)
    active,       \* zone codes of the bidding_zones rows with active = TRUE
    op,           \* "none" | "fetch_all" | "tomorrow" | "backfill"
    pc,           \* position inside the operation
    phase,        \* which date fetch_all_prices is at: "today" | "tomorrow"
    zones,        \* the zones the running fanout iterates over
    pending,      \* zones of the stream not yet started
    inflight,     \* zones whose fetch future is in the buffer
    todo,         \* backfill: the (date, zone) pairs still to fetch
    results,      \* the collected (zone, date, Result) triples, in completion order
    summary,      \* the local `summary`
    all_prices,   \* the local `all_prices`
    combined,     \* combined_summary of fetch_all_prices
    fetch_id,     \* id of the fetch-log row this operation opened, 0 if none
    fetch_log,    \* the fetch_log table: a sequence of rows, id = index
    upserts,      \* batches handed to upsert_prices by the running invocation
    ret,          \* what the operation returned, None while it runs
    request,      \* backfill_missing's arguments, None for the other operations
    table_start,  \* electricity_prices when the operation was called
    \* ---- the transaction inside one upsert_prices call (repository.rs:86-110)
    txPc,         \* "idle" | "begun" | "executed" | "returned" | "cancelled"
    txRows,       \* the table as the open transaction sees it
    \* ---- jobs writing concurrently (scheduler jobs, admin fetch and backfill)
    jobs,         \* per job: its position and the prices it parsed
    written,      \* every record handed to a committed upsert so far
    \* ---- two batches upserted in both orders
    batchB,       \* the second batch (`batch` is the first)
    tableAB,      \* the table after upserting batch, then batchB
    tableBA,      \* the table after upserting batchB, then batch
    \* ---- one response body normalized and stored (xml.rs, validation.rs)
    document,     \* the Publication document: its TimeSeries, each a list of Periods
    nPc,          \* "idle" | "parse" | "store" | "done"
    normalized,   \* per Period handled: the forward-filled points and the Result
    extracted,    \* the Result of extract_prices, None before the call
    stored,       \* the Result of the upsert of the extracted prices
    \* ---- the cron scheduler and its jobs (scheduler/mod.rs)
    day,          \* days elapsed since the scheduler started
    clock,        \* the hour of the day, Europe/Oslo wall clock
    started,      \* the job executions started so far, in order
    running,      \* per job name: executions awaiting their orchestrator call
    executions,   \* counter scheduler_job_executions, by <<job name, status>>
    durations,    \* histogram scheduler_job_duration: observations per job name
    \* ---- concurrent calls of fetch_day_ahead_prices (client.rs:81-210)
    callers,      \* per calling task: its position, zone, counters and result
    holder,       \* the task owning the rate limiter's mutex, 0 when it is free
    traffic,      \* counts: permits granted, GET requests sent, waits recorded
    \* ---- successive retry ticks of one UTC day
    tick,         \* invocations of fetch_tomorrow_if_missing that have returned
    stored_zones  \* zones whose fetched prices an earlier invocation stored

retryVars  == <<rPc, rZone, attempt, last_error, rResult, events, exchange>>
upsertVars == <<table0, batch, nUpserts, lastUpsert>>
bucketVars == <<now, max_tokens, tokens, last_refill, acquired, lastAcquire>>
orchVars   == <<active, op, pc, phase, zones, pending, inflight, todo, results,
                summary, all_prices, combined, fetch_id, fetch_log, upserts, ret,
                request, table_start>>
txVars     == <<txPc, txRows>>
jobVars    == <<jobs, written>>
orderVars  == <<batchB, tableAB, tableBA>>
normVars   == <<document, nPc, normalized, extracted, stored>>
schedVars  == <<day, clock, started, running, executions, durations>>
clientVars == <<callers, holder, traffic>>
tickVars   == <<tick, stored_zones>>
moreVars   == <<clientVars, tickVars>>
libVars    == <<normVars, schedVars, moreVars>>
auxVars    == <<txVars, jobVars, orderVars, libVars>>
vars == <<retryVars, table, upsertVars, bucketVars, orchVars, auxVars>>

None == [none |-> TRUE]

Range(s) == {s[i] : i \in 1..Len(s)}

\* ------------------------------------------------------------------------
\* EntsoeError and the classification of one upstream exchange
\* ------------------------------------------------------------------------

ErrorKinds ==
    {"RateLimited", "TemporaryUnavailable", "XmlParseError", "InvalidResponse",
     "HttpError", "InvalidResolution", "TimestampParseError", "MissingFirstPeriod"}

\* A mutation of is_transient: the transport error classified as transient.
is_transient_with_http(kind) ==
    kind \in {"RateLimited", "TemporaryUnavailable", "HttpError"}

\* A mutation of is_transient: a parse failure classified as transient.
is_transient_with_parse(kind) ==
    kind \in {"RateLimited", "TemporaryUnavailable", "XmlParseError"}

\* A mutation of is_transient: only RateLimited is retried.
is_transient_rate_limit_only(kind) == kind = "RateLimited"

\* EntsoeError::is_transient
is_transient(kind) == kind \in {"RateLimited", "TemporaryUnavailable"}

Ok(v)  == [ok |-> TRUE, val |-> v]
\* An error value: its variant and the attempt that produced it (its payload).
Err(kind, at) == [ok |-> FALSE, kind |-> kind, at |-> at]

\* What the upstream can answer to one GET: the transport outcome, the HTTP
\* status and the body.  A body is described by what the two decoders make
\* of it: `publication` is "undecodable" when quick_xml does not decode it as
\* a PublicationMarketDocument and otherwise the outcome of extract_prices on
\* the decoded document; `acknowledgement` is None when it does not decode as
\* an AcknowledgementMarketDocument and otherwise the codes of its reasons.
\* A body may satisfy both decoders (every field of both documents has a
\* default) or none.
PublicationOutcomes ==
    {"undecodable", "prices", "empty", "bad_resolution", "bad_timestamp",
     "missing_first"}

ReasonCodes ==
    {None, [none |-> FALSE, val |-> <<>>], [none |-> FALSE, val |-> <<"999">>],
     [none |-> FALSE, val |-> <<"B08">>],
     [none |-> FALSE, val |-> <<"B08", "999">>]}

Bodies ==
    {[read_ok |-> TRUE, publication |-> p, acknowledgement |-> a] :
        p \in PublicationOutcomes, a \in ReasonCodes}

Unreadable ==
    [read_ok |-> FALSE, publication |-> "undecodable", acknowledgement |-> None]

Unparsable ==
    [read_ok |-> TRUE, publication |-> "undecodable", acknowledgement |-> None]

Responses ==
    {[send |-> "io_error", status |-> 0, body |-> Unreadable],
     [send |-> "ok", status |-> 200, body |-> Unreadable]}
    \cup {[send |-> "ok", status |-> 200, body |-> b] : b \in Bodies}
    \cup {[send |-> "ok", status |-> s, body |-> Unparsable] :
              s \in {429, 500, 503, 404}}

\* doc.extract_prices(zone_code) on a decoded Publication document, by the
\* kind of its Periods (client.rs:214; the function itself is extract_prices
\* above SpecNormalize)
extraction_result(publication, at) ==
    CASE publication = "prices"         -> Ok("prices")
      [] publication = "empty"          -> Ok("empty")
      [] publication = "bad_resolution" -> Err("InvalidResolution", at)
      [] publication = "bad_timestamp"  -> Err("TimestampParseError", at)
      [] publication = "missing_first"  -> Err("MissingFirstPeriod", at)

\* A mutation of parse_response: the Acknowledgement decoder is tried first.
parse_response_ack_first(body, at) ==
    IF body.acknowledgement # None
    THEN IF \E i \in 1..Len(body.acknowledgement.val) :
                body.acknowledgement.val[i] = "999"
         THEN Ok("empty")
         ELSE Err("InvalidResponse", at)
    ELSE IF body.publication # "undecodable"
    THEN extraction_result(body.publication, at)
    ELSE Err("XmlParseError", at)

\* EntsoeClient::parse_response: the Publication decoder, then the
\* Acknowledgement decoder and its loop over the reasons, then the parse error
parse_response(body, at) ==
    IF body.publication # "undecodable"
    THEN extraction_result(body.publication, at)
    ELSE IF body.acknowledgement # None
    THEN IF \E i \in 1..Len(body.acknowledgement.val) :
                body.acknowledgement.val[i] = "999"
         THEN Ok("empty")
         ELSE Err("InvalidResponse", at)
    ELSE Err("XmlParseError", at)

\* EntsoeClient::fetch_day_ahead_prices: the result of attempt number `at`
\* for `zone` when the upstream answers `resp`.
fetch_day_ahead_prices(zone, resp, at) ==
    IF ~zone.tz_ok THEN Err("InvalidResponse", at)
    ELSE IF resp.send = "io_error" THEN Err("HttpError", at)
    ELSE IF resp.status = 200 THEN
        IF ~resp.body.read_ok THEN Err("HttpError", at)
        ELSE parse_response(resp.body, at)
    ELSE IF resp.status = 429 THEN Err("RateLimited", at)
    ELSE IF resp.status >= 500 /\ resp.status <= 599
        THEN Err("TemporaryUnavailable", at)
    ELSE Err("InvalidResponse", at)

\* ------------------------------------------------------------------------
\* fetch_day_ahead_prices_with_retry
\* ------------------------------------------------------------------------

MAX_ATTEMPTS == 4
BASE_DELAY_MS == 1000
MAX_DELAY_MS == 60000

Pow2(n) == IF n = 0 THEN 1 ELSE IF n = 1 THEN 2 ELSE IF n = 2 THEN 4 ELSE 8

\* rand_jitter() is (hash % 1000) / 1000: these are the samples explored.
JitterPermille == {0, 500, 999}

\* A mutation of compute_backoff_with_jitter: the jitter reaches 20% of the
\* capped delay.
compute_backoff_jitter_inclusive(att, base_delay_ms, j) ==
    LET exp_delay == base_delay_ms * Pow2(att)
        capped_delay == IF exp_delay < MAX_DELAY_MS THEN exp_delay ELSE MAX_DELAY_MS
        jitter == (capped_delay * 2 * (j + 1)) \div 10000
    IN  capped_delay + jitter

\* compute_backoff_with_jitter, with rand_jitter() = j / 1000
compute_backoff_with_jitter(att, base_delay_ms, j) ==
    LET exp_delay == base_delay_ms * Pow2(att)
        capped_delay == IF exp_delay < MAX_DELAY_MS THEN exp_delay ELSE MAX_DELAY_MS
        jitter == (capped_delay * 2 * j) \div 10000
    IN  capped_delay + jitter

RetryZones == {[code |-> 1, tz_ok |-> TRUE], [code |-> 2, tz_ok |-> FALSE]}

RetryInit ==
    /\ rPc = "idle"
    /\ rZone = None
    /\ attempt = 0
    /\ last_error = None
    /\ rResult = None
    /\ events = <<>>
    /\ exchange = None

CallEvent(res) == [ev |-> "call", res |-> res]
SleepEvent(ms) == [ev |-> "sleep", ms |-> ms]

NumCalls == Cardinality({i \in 1..Len(events) : events[i].ev = "call"})
NumSleeps == Cardinality({i \in 1..Len(events) : events[i].ev = "sleep"})

\* A mutation of the loop range: one attempt more.
InRange_inclusive(att) == att <= MAX_ATTEMPTS

\* `for attempt in 0..MAX_ATTEMPTS`: the loop body runs for this value
InRange(att) == att < MAX_ATTEMPTS

\* A mutation of the backoff guard: a sleep after the last attempt too.
SleepsBeforeNext_always(att) == att < MAX_ATTEMPTS

\* the guard `attempt + 1 < MAX_ATTEMPTS` of the backoff sleep
SleepsBeforeNext(att) == att + 1 < MAX_ATTEMPTS

\* A mutation of the exhaustion path: the error kept is the first one.
Exhausted_first(e) == IF last_error = None THEN e ELSE last_error

\* `last_error = Some(e)`: the error surfaced on exhaustion is the latest one
Exhausted(e) == e

\* The caller invokes fetch_day_ahead_prices_with_retry(zone, date).
RetryCall(z) ==
    /\ rPc = "idle"
    /\ rPc' = "attempt"
    /\ rZone' = z
    /\ attempt' = 0
    /\ last_error' = None
    /\ UNCHANGED <<rResult, events, exchange>>

\* One iteration of `for attempt in 0..MAX_ATTEMPTS` up to its await point:
\* the call of fetch_day_ahead_prices and the match on its result.
RetryAttempt(resp) ==
    /\ rPc = "attempt"
    /\ InRange(attempt)
    /\ LET res == fetch_day_ahead_prices(rZone, resp, attempt + 1)
       IN  /\ events' = Append(events, CallEvent(res))
           /\ exchange' = resp
           /\ IF res.ok
              THEN /\ rResult' = res
                   /\ rPc' = "done"
                   /\ UNCHANGED <<attempt, last_error>>
              ELSE IF is_transient(res.kind)
              THEN /\ last_error' = Exhausted(res)
                   /\ IF SleepsBeforeNext(attempt)
                      THEN /\ rPc' = "sleep"
                           /\ UNCHANGED <<attempt, rResult>>
                      ELSE /\ attempt' = attempt + 1
                           /\ IF InRange(attempt + 1)
                              THEN rPc' = "attempt" /\ UNCHANGED rResult
                              ELSE rPc' = "done" /\ rResult' = last_error'
              ELSE /\ rResult' = res
                   /\ rPc' = "done"
                   /\ UNCHANGED <<attempt, last_error>>
    /\ UNCHANGED rZone

\* tokio::time::sleep(backoff) returns and the loop moves to the next attempt.
RetrySleep(j) ==
    /\ rPc = "sleep"
    /\ events' = Append(events,
           SleepEvent(compute_backoff_with_jitter(attempt, BASE_DELAY_MS, j)))
    /\ attempt' = attempt + 1
    /\ IF InRange(attempt + 1)
       THEN rPc' = "attempt" /\ UNCHANGED rResult
       ELSE rPc' = "done" /\ rResult' = last_error
    /\ UNCHANGED <<rZone, last_error, exchange>>

\* ------------------------------------------------------------------------
\* electricity_prices and PriceRepository::upsert_prices
\* ------------------------------------------------------------------------

\* models::Price
Price(ts, zone, kwh, at) ==
    [timestamp |-> ts, bidding_zone |-> zone, price_kwh |-> kwh,
     currency |-> "EUR", resolution |-> "PT60M", fetched_at |-> at]

\* A mutation of the conflict target: the timestamp alone.
Key_timestamp_only(p) == <<p.timestamp, 0>>

\* The conflict target of the upsert: PRIMARY KEY (timestamp, bidding_zone)
Key(p) == <<p.timestamp, p.bidding_zone>>

KeysOf(prices) == {Key(prices[i]) : i \in 1..Len(prices)}

\* Two rows proposed for insertion by one statement have the same key.
HasDuplicateKey(prices) ==
    \E i, j \in 1..Len(prices) : i < j /\ Key(prices[i]) = Key(prices[j])

UpsertOk(rows, tbl) == [ok |-> TRUE, val |-> rows, table |-> tbl]
UpsertErr(kind, tbl) == [ok |-> FALSE, kind |-> kind, table |-> tbl]

\* A mutation of the statement: ON CONFLICT DO NOTHING (existing rows stay).
upsert_prices_do_nothing(tbl, prices, db_ok) ==
    IF prices = <<>> THEN UpsertOk(0, tbl)
    ELSE IF ~db_ok THEN UpsertErr("upsert_prices: connection", tbl)
    ELSE LET fresh == {p \in Range(prices) : \A r \in tbl : Key(r) # Key(p)}
         IN  UpsertOk(Cardinality(fresh), tbl \cup fresh)

\* PriceRepository::upsert_prices on table `tbl`.  `db_ok` says whether the
\* pool, the statement and the commit succeed as far as the database's
\* availability goes.  INSERT ... SELECT FROM UNNEST ... ON CONFLICT
\* (timestamp, bidding_zone) DO UPDATE is rejected by PostgreSQL when two
\* proposed rows have the same key ("ON CONFLICT DO UPDATE command cannot
\* affect row a second time", SQLSTATE 21000): the transaction is dropped
\* without commit and the error is returned.
upsert_prices(tbl, prices, db_ok) ==
    IF prices = <<>> THEN UpsertOk(0, tbl)
    ELSE IF ~db_ok THEN UpsertErr("upsert_prices: connection", tbl)
    ELSE IF HasDuplicateKey(prices) THEN UpsertErr("upsert_prices: cardinality", tbl)
    ELSE UpsertOk(Len(prices),
                  {r \in tbl : Key(r) \notin KeysOf(prices)} \cup Range(prices))

\* ---- the table and batches explored by SpecUpsert
MaxBatch == 2
MaxRepeats == 3
Timestamps == {0, 1}
UpsertZones == {1, 2}
PriceValues == {1, 2}
AllKeys == Timestamps \X UpsertZones

\* rows stored by an earlier fetch (fetched_at = 1)
StoredRows == {Price(k[1], k[2], v, 1) : k \in AllKeys, v \in PriceValues}
\* rows of a batch fetched now (fetched_at = 2)
BatchRows == {Price(k[1], k[2], v, 2) : k \in AllKeys, v \in PriceValues}

Tables ==
    {t \in SUBSET StoredRows : \A r1, r2 \in t : Key(r1) = Key(r2) => r1 = r2}

SeqsUpTo(S, n) == UNION {[1..m -> S] : m \in 0..n}

UpsertIdle ==
    /\ table0 = {}
    /\ batch = <<>>
    /\ nUpserts = 0
    /\ lastUpsert = None

UpsertInit ==
    /\ table \in Tables
    /\ table0 = table
    /\ batch \in SeqsUpTo(BatchRows, MaxBatch)
    /\ nUpserts = 0
    /\ lastUpsert = None

\* One more call upsert_prices(&batch).
UpsertAgain(db_ok) ==
    /\ nUpserts < MaxRepeats
    /\ LET r == upsert_prices(table, batch, db_ok)
       IN  /\ table' = r.table
           /\ lastUpsert' = [ok |-> r.ok, val |-> IF r.ok THEN r.val ELSE r.kind]
    /\ nUpserts' = nUpserts + 1
    /\ UNCHANGED <<table0, batch>>

\* ------------------------------------------------------------------------
\* TokenBucketRateLimiter
\* ------------------------------------------------------------------------
\* Time is counted in seconds and tokens in sixtieths of a token, so that the
\* refill rate max_tokens / 60.0 tokens per second is max_tokens / TokenUnit
\* sixtieths per second, a whole number.

TokenUnit == 60
Window == 60
MaxTime == 120
Rates == {1, 2, 3}
Advances == {10, 20}

Min(a, b) == IF a < b THEN a ELSE b

refill_rate_per_sec(maxT) == maxT \div TokenUnit

\* A mutation of refill: no cap at max_tokens.
refill_uncapped(tok, maxT, elapsed) == tok + elapsed * refill_rate_per_sec(maxT)

\* TokenBucketRateLimiter::refill: the token count after `elapsed` seconds
refill(tok, maxT, elapsed) ==
    Min(tok + elapsed * refill_rate_per_sec(maxT), maxT)

BucketIdle ==
    /\ now = 0
    /\ max_tokens = 0
    /\ tokens = 0
    /\ last_refill = 0
    /\ acquired = <<>>
    /\ lastAcquire = None

\* TokenBucketRateLimiter::new(requests_per_minute)
BucketInit ==
    /\ now = 0
    /\ max_tokens \in {r * TokenUnit : r \in Rates}
    /\ tokens = max_tokens
    /\ last_refill = 0
    /\ acquired = <<>>
    /\ lastAcquire = None

\* Time passes.  Acquisitions that left every window containing `now` are
\* forgotten.
Advance(d) ==
    /\ now + d <= MaxTime
    /\ now' = now + d
    /\ acquired' = SelectSeq(acquired, LAMBDA a : now' - a < Window)
    /\ UNCHANGED <<max_tokens, tokens, last_refill, lastAcquire>>

\* One caller holds the mutex and runs try_acquire (refill, then take a
\* token or compute the wait).
TryAcquire ==
    LET filled == refill(tokens, max_tokens, now - last_refill)
    IN  /\ last_refill' = now
        /\ IF filled >= TokenUnit
           THEN /\ tokens' = filled - TokenUnit
                /\ acquired' = Append(acquired, now)
                /\ lastAcquire' = [granted |-> TRUE]
           ELSE /\ tokens' = filled
                /\ acquired' = acquired
                /\ lastAcquire' =
                       [granted |-> FALSE,
                        wait |-> <<TokenUnit - filled, refill_rate_per_sec(max_tokens)>>]
        /\ UNCHANGED <<now, max_tokens>>

\* ------------------------------------------------------------------------
\* The repository operations FetcherService uses
\* ------------------------------------------------------------------------

Some(v) == [none |-> FALSE, val |-> v]

DayHours == 24
NZones == 2
Today == 1
Tomorrow == Today + 1

RECURSIVE SortedSeq(_)
SortedSeq(S) ==
    IF S = {} THEN <<>>
    ELSE LET m == CHOOSE x \in S : \A y \in S : x <= y
         IN  <<m>> \o SortedSeq(S \ {m})

\* PriceRepository::load_zones: the active zones, ordered
load_zones == SortedSeq(active)

\* A mutation of the query: the bidding_zone filter is dropped.
has_tomorrow_data_any_zone(tbl, zone_code) ==
    \E r \in tbl :
        /\ r.timestamp >= Tomorrow * DayHours
        /\ r.timestamp < (Tomorrow + 1) * DayHours

\* A mutation of the query: the window is the day after tomorrow.
has_tomorrow_data_day_after(tbl, zone_code) ==
    \E r \in tbl :
        /\ r.bidding_zone = zone_code
        /\ r.timestamp >= (Tomorrow + 1) * DayHours
        /\ r.timestamp < (Tomorrow + 2) * DayHours

\* PriceRepository::has_tomorrow_data: some row of the zone has its
\* timestamp inside tomorrow's UTC date
has_tomorrow_data(tbl, zone_code) ==
    \E r \in tbl :
        /\ r.bidding_zone = zone_code
        /\ r.timestamp >= Tomorrow * DayHours
        /\ r.timestamp < (Tomorrow + 1) * DayHours

\* the number of stored rows of a zone whose timestamp has UTC date `date`
hour_count(tbl, date, zone_code) ==
    Cardinality({r \in tbl : r.bidding_zone = zone_code
                              /\ r.timestamp \div DayHours = date})

\* A mutation of the query: WHERE COALESCE(pc.hour_count, 0) <= 24.
find_gaps_inclusive(tbl, start_date, end_date, zone_codes) ==
    LET ranks == {d * 100 + z : d \in start_date..end_date, z \in Range(zone_codes)}
        gaps == {r \in ranks : hour_count(tbl, r \div 100, r % 100) <= DayHours}
        ordered == SortedSeq(gaps)
    IN  [i \in 1..Len(ordered) |->
            <<ordered[i] \div 100, ordered[i] % 100,
              hour_count(tbl, ordered[i] \div 100, ordered[i] % 100)>>]

\* PriceRepository::find_gaps: (date, zone_code, existing_count) for the pairs
\* of the range with fewer than 24 rows, ordered by date, then zone
find_gaps(tbl, start_date, end_date, zone_codes) ==
    LET ranks == {d * 100 + z : d \in start_date..end_date, z \in Range(zone_codes)}
        gaps == {r \in ranks : hour_count(tbl, r \div 100, r % 100) < DayHours}
        ordered == SortedSeq(gaps)
    IN  [i \in 1..Len(ordered) |->
            <<ordered[i] \div 100, ordered[i] % 100,
              hour_count(tbl, ordered[i] \div 100, ordered[i] % 100)>>]

PendingRow ==
    [status |-> "pending", fetch_completed_at |-> None, records_inserted |-> None,
     error_message |-> None, duration_ms |-> None, updates |-> 0]

\* PriceRepository::log_fetch_start: the table with the new pending row
\* (the id returned is the new length)
log_fetch_start(log) == Append(log, PendingRow)

\* PriceRepository::log_fetch_complete for a row that exists (the UPDATE)
log_fetch_complete(log, id, status, records_inserted, error_message) ==
    [log EXCEPT ![id] =
        [status |-> status, fetch_completed_at |-> Some("NOW"),
         records_inserted |-> Some(records_inserted),
         error_message |-> error_message, duration_ms |-> Some("elapsed"),
         updates |-> @.updates + 1]]

\* ------------------------------------------------------------------------
\* What a zone fetch can return to FetcherService
\* ------------------------------------------------------------------------

\* hours by which the zone's local midnight precedes UTC midnight
UtcOffset(zone_code) == IF zone_code % 2 = 1 THEN 1 ELSE 0

\* EntsoeClient::calculate_utc_bounds, in hours since the epoch
calculate_utc_bounds(date, zone_code) ==
    <<date * DayHours - UtcOffset(zone_code),
      (date + 1) * DayHours - UtcOffset(zone_code)>>

\* The prices a complete publication for (zone, date) yields: one per hour
\* of the requested window, fetched now.
Document(zone_code, date) ==
    LET bounds == calculate_utc_bounds(date, zone_code)
    IN  [i \in 1..(bounds[2] - bounds[1]) |->
            Price(bounds[1] + i - 1, zone_code, 1, now)]

\* rows stored for tomorrow by a fetch before this one
StoredTomorrow(zone_code) ==
    LET start == calculate_utc_bounds(Tomorrow, zone_code)[1]
    IN  {Price(start, zone_code, 0, 0), Price(start + 1, zone_code, 0, 0)}

\* The values fetch_day_ahead_prices_with_retry returns: prices, an empty
\* list (empty publication or acknowledgement 999), a transient error after
\* the 4th attempt, or a permanent error.
FetchOutcomes(zone_code, date) ==
    {Ok(Document(zone_code, date)), Ok(<<>>),
     Err("RateLimited", MAX_ATTEMPTS), Err("InvalidResponse", 1)}

\* ------------------------------------------------------------------------
\* FetchSummary and the classification loop
\* ------------------------------------------------------------------------

DefaultSummary ==
    [succeeded |-> 0, failed |-> 0, no_data |-> 0, total_prices_stored |-> 0,
     errors |-> <<>>]

\* FetchSummary::merge
merge(self, other) ==
    [succeeded |-> self.succeeded + other.succeeded,
     failed |-> self.failed + other.failed,
     no_data |-> self.no_data + other.no_data,
     total_prices_stored |-> self.total_prices_stored + other.total_prices_stored,
     errors |-> self.errors \o other.errors]

\* A mutation of the loop body: a failed zone is logged but not counted.
ClassifyOne_uncounted(acc, item) ==
    IF item.result.ok /\ item.result.val = <<>>
    THEN [acc EXCEPT !.summary.no_data = @ + 1]
    ELSE IF item.result.ok
    THEN [acc EXCEPT !.summary.succeeded = @ + 1,
                     !.all_prices = @ \o item.result.val]
    ELSE acc

\* One iteration of `for (zone, result) in results` (service.rs:75-97)
ClassifyOne(acc, item) ==
    IF item.result.ok /\ item.result.val = <<>>
    THEN [acc EXCEPT !.summary.no_data = @ + 1]
    ELSE IF item.result.ok
    THEN [acc EXCEPT !.summary.succeeded = @ + 1,
                     !.all_prices = @ \o item.result.val]
    ELSE IF item.result.kind = "NoData"
    THEN [acc EXCEPT !.summary.no_data = @ + 1]
    ELSE [acc EXCEPT !.summary.failed = @ + 1,
                     !.summary.errors = Append(@, <<item.zone, item.result.kind>>)]

RECURSIVE ClassifyAll(_, _)
ClassifyAll(acc, res) ==
    IF res = <<>> THEN acc
    ELSE ClassifyAll(ClassifyOne(acc, Head(res)), Tail(res))

\* The fetch-log status computed from a summary (service.rs:152-158, 292-298)
FinalStatus(s) ==
    IF s.failed > 0 THEN "error"
    ELSE IF s.succeeded = 0 /\ s.no_data > 0 THEN "nodata"
    ELSE "success"

\* The error_message computed from a summary (service.rs:160-164, 300-304)
ErrorMessage(s) == IF s.errors = <<>> THEN None ELSE Some(s.errors)

AnyhowErr(msg) == [ok |-> FALSE, kind |-> msg, at |-> 0]

\* ------------------------------------------------------------------------
\* FetcherService: the per-date fanout
\* ------------------------------------------------------------------------

FanoutLimit == 5

\* A mutation of the buffer: no limit on the futures in flight.
HasFreeSlot_unbounded(n) == TRUE

\* buffer_unordered(5) pulls the next future while fewer than 5 are in flight
HasFreeSlot(n) == n < FanoutLimit

\* A mutation of collect(): it returns once no future is left to start.
FanoutDone_early(waiting, flying) == waiting = <<>>

\* collect() returns when the stream is exhausted and the buffer is empty
FanoutDone(waiting, flying) == waiting = <<>> /\ flying = {}

\* the date the running fanout fetches
CurrentDate == IF op = "fetch_all" /\ phase = "today" THEN Today ELSE Tomorrow

\* stream::iter(zs)...buffer_unordered(5).collect() starts (service.rs:60-70,
\* 246-256); an empty stream collects at once.
BeginFanout(zs) ==
    /\ zones' = zs
    /\ pending' = zs
    /\ inflight' = {}
    /\ results' = <<>>
    /\ upserts' = <<>>
    /\ all_prices' = <<>>
    /\ summary' = DefaultSummary
    /\ pc' = IF zs = <<>> THEN "classify" ELSE "fanout"

\* The buffer pulls the next zone's future from the stream and polls it.
StartZone ==
    /\ pc = "fanout"
    /\ pending # <<>>
    /\ HasFreeSlot(Cardinality(inflight))
    /\ inflight' = inflight \cup {Head(pending)}
    /\ pending' = Tail(pending)
    /\ UNCHANGED <<active, request, table_start, op, pc, phase, zones, todo, results, summary, all_prices,
                   combined, fetch_id, fetch_log, upserts, ret, table>>

\* One in-flight fetch_day_ahead_prices_with_retry returns `res`; the buffer
\* is polled only when it is full or the stream is exhausted.
CompleteZone(z, res) ==
    /\ pc = "fanout"
    /\ z \in inflight
    /\ pending = <<>> \/ ~HasFreeSlot(Cardinality(inflight))
    /\ results' = Append(results, [zone |-> z, date |-> CurrentDate, result |-> res])
    /\ inflight' = inflight \ {z}
    /\ pc' = IF FanoutDone(pending, inflight') THEN "classify" ELSE "fanout"
    /\ UNCHANGED <<active, request, table_start, op, phase, zones, pending, todo, summary, all_prices,
                   combined, fetch_id, fetch_log, upserts, ret, table>>

\* The loop `for (zone, result) in results` (service.rs:72-97, 258-283).
Classify ==
    /\ pc = "classify"
    /\ LET acc == ClassifyAll([summary |-> DefaultSummary, all_prices |-> <<>>],
                              results)
       IN  /\ summary' = acc.summary
           /\ all_prices' = acc.all_prices
    /\ pc' = "upsert"
    /\ UNCHANGED <<active, request, table_start, op, phase, zones, pending, inflight, todo, results,
                   combined, fetch_id, fetch_log, upserts, ret, table>>

\* A mutation of fetch_all_prices: an error of today's fanout ends the run.
ReturnToFetchAll_abort(outcome) ==
    /\ combined' = IF outcome.ok THEN merge(combined, outcome.val)
                   ELSE [combined EXCEPT !.errors = Append(@, <<phase, outcome.kind>>)]
    /\ IF phase = "today" /\ outcome.ok
       THEN phase' = "tomorrow" /\ pc' = "load"
       ELSE phase' = phase /\ pc' = "complete"
    /\ ret' = ret

\* fetch_date_all_zones returned `outcome` to fetch_all_prices, which merges
\* it or records the failure and moves on (service.rs:135-149).
ReturnToFetchAll(outcome) ==
    /\ combined' = IF outcome.ok THEN merge(combined, outcome.val)
                   ELSE [combined EXCEPT !.errors = Append(@, <<phase, outcome.kind>>)]
    /\ IF phase = "today"
       THEN phase' = "tomorrow" /\ pc' = "load"
       ELSE phase' = phase /\ pc' = "complete"
    /\ ret' = ret

\* The batch upsert and what follows it up to the next await
\* (service.rs:99-118 with 135-149, and 285-289).
Upsert(db_ok) ==
    /\ pc = "upsert"
    /\ LET r == upsert_prices(table, all_prices, db_ok)
           outcome == IF all_prices = <<>> THEN Ok(summary)
                      ELSE IF r.ok
                      THEN Ok([summary EXCEPT !.total_prices_stored = r.val])
                      ELSE AnyhowErr(r.kind)
       IN  /\ table' = IF all_prices = <<>> THEN table ELSE r.table
           /\ upserts' = IF all_prices = <<>> THEN upserts
                         ELSE Append(upserts, all_prices)
           /\ summary' = IF outcome.ok THEN outcome.val ELSE summary
           /\ IF op = "fetch_all"
              THEN ReturnToFetchAll(outcome)
              ELSE /\ IF outcome.ok
                      THEN pc' = "complete" /\ ret' = ret
                      ELSE pc' = "done" /\ ret' = outcome
                   /\ UNCHANGED <<combined, phase>>
    /\ UNCHANGED <<active, request, table_start, op, zones, pending, inflight, todo, results, all_prices,
                   fetch_id, fetch_log>>

\* ------------------------------------------------------------------------
\* FetcherService::fetch_all_prices
\* ------------------------------------------------------------------------

\* fetch_all_prices is called: log_fetch_start (service.rs:122-133).
FA_Start(db_ok) ==
    /\ op = "none"
    /\ op' = "fetch_all"
    /\ IF db_ok
       THEN /\ fetch_log' = log_fetch_start(fetch_log)
            /\ fetch_id' = Len(fetch_log) + 1
            /\ combined' = DefaultSummary
            /\ phase' = "today"
            /\ pc' = "load"
            /\ ret' = ret
       ELSE /\ ret' = AnyhowErr("log_fetch_start")
            /\ pc' = "done"
            /\ UNCHANGED <<fetch_log, fetch_id, combined, phase>>
    /\ UNCHANGED <<active, request, table_start, zones, pending, inflight, todo, results, summary,
                   all_prices, upserts, table>>

\* fetch_date_all_zones(date) starts: load_zones (service.rs:54-58).
FDAZ_Load(db_ok) ==
    /\ op = "fetch_all"
    /\ pc = "load"
    /\ IF db_ok
       THEN /\ BeginFanout(load_zones)
            /\ UNCHANGED <<combined, phase, ret>>
       ELSE /\ ReturnToFetchAll(AnyhowErr("load_zones"))
            /\ results' = <<>>
            /\ upserts' = <<>>
            /\ UNCHANGED <<zones, pending, inflight, summary, all_prices>>
    /\ UNCHANGED <<active, request, table_start, op, todo, fetch_id, fetch_log, table>>

\* The fetch-log row is closed and the operation returns
\* (service.rs:151-187, 291-327).
Complete(db_ok) ==
    /\ pc = "complete"
    /\ LET s == IF op = "fetch_all" THEN combined ELSE summary
       IN  IF db_ok
           THEN /\ fetch_log' = log_fetch_complete(fetch_log, fetch_id, FinalStatus(s),
                                                   s.total_prices_stored, ErrorMessage(s))
                /\ ret' = Ok(s)
           ELSE /\ fetch_log' = fetch_log
                /\ ret' = AnyhowErr("log_fetch_complete")
    /\ pc' = "done"
    /\ UNCHANGED <<active, request, table_start, op, phase, zones, pending, inflight, todo, results,
                   summary, all_prices, combined, fetch_id, upserts, table>>

\* ------------------------------------------------------------------------
\* FetcherService::fetch_tomorrow_if_missing
\* ------------------------------------------------------------------------

\* FetcherService::should_fetch_tomorrow
should_fetch_tomorrow(tbl) ==
    \E i \in 1..Len(load_zones) : ~has_tomorrow_data(tbl, load_zones[i])

\* fetch_tomorrow_if_missing is called: should_fetch_tomorrow
\* (service.rs:215-219).
TM_Check(db_ok) ==
    /\ op = "none"
    /\ op' = "tomorrow"
    /\ IF ~db_ok
       THEN ret' = AnyhowErr("has_tomorrow_data") /\ pc' = "done"
       ELSE IF ~should_fetch_tomorrow(table)
       THEN ret' = Ok(DefaultSummary) /\ pc' = "done"
       ELSE ret' = ret /\ pc' = "select"
    /\ UNCHANGED <<active, request, table_start, phase, zones, pending, inflight, todo, results, summary,
                   all_prices, combined, fetch_id, fetch_log, upserts, table>>

\* The zones missing tomorrow's data are selected (service.rs:226-240).
TM_Select(db_ok) ==
    /\ op = "tomorrow"
    /\ pc = "select"
    /\ LET zones_to_fetch ==
               SelectSeq(load_zones, LAMBDA z : ~has_tomorrow_data(table, z))
       IN  IF ~db_ok
           THEN ret' = AnyhowErr("has_tomorrow_data") /\ pc' = "done" /\ zones' = zones
           ELSE IF zones_to_fetch = <<>>
           THEN ret' = Ok(DefaultSummary) /\ pc' = "done" /\ zones' = zones
           ELSE ret' = ret /\ pc' = "log_start" /\ zones' = zones_to_fetch
    /\ UNCHANGED <<active, request, table_start, op, phase, pending, inflight, todo, results, summary,
                   all_prices, combined, fetch_id, fetch_log, upserts, table>>

\* log_fetch_start, then the fanout over zones_to_fetch begins
\* (service.rs:242-256).
TM_LogStart(db_ok) ==
    /\ op = "tomorrow"
    /\ pc = "log_start"
    /\ IF db_ok
       THEN /\ fetch_log' = log_fetch_start(fetch_log)
            /\ fetch_id' = Len(fetch_log) + 1
            /\ BeginFanout(zones)
            /\ ret' = ret
       ELSE /\ ret' = AnyhowErr("log_fetch_start")
            /\ pc' = "done"
            /\ UNCHANGED <<fetch_log, fetch_id, zones, pending, inflight, results,
                           upserts, all_prices, summary>>
    /\ UNCHANGED <<active, request, table_start, op, phase, todo, combined, table>>

\* ------------------------------------------------------------------------
\* FetcherService::backfill_missing
\* ------------------------------------------------------------------------

DefaultBackfillSummary ==
    [dates_checked |-> 0, dates_with_gaps |-> 0, prices_fetched |-> 0,
     prices_stored |-> 0, gaps_found |-> <<>>, errors |-> <<>>]

\* A mutation of the filter: the codes of the filter are taken as they are.
zone_codes_of_unchecked(all_zones, zone_filter) ==
    IF zone_filter = None THEN all_zones
    ELSE SortedSeq(zone_filter.val)

\* the zone codes selected by the filter (service.rs:340-350)
zone_codes_of(all_zones, zone_filter) ==
    IF zone_filter = None THEN all_zones
    ELSE SelectSeq(all_zones, LAMBDA z : z \in zone_filter.val)

\* the `while current <= end_date` count (service.rs:359-364)
dates_checked_of(start_date, end_date) ==
    IF start_date <= end_date THEN end_date - start_date + 1 ELSE 0

\* A mutation of the count: one per (date, zone) pair instead of per date.
dates_with_gaps_per_pair(dates_to_fetch) == Cardinality(dates_to_fetch)

\* the number of distinct dates among the pairs to fetch (service.rs:389)
dates_with_gaps_of(dates_to_fetch) == Cardinality({p[1] : p \in dates_to_fetch})

\* The requests explored: one date for all zones, two dates for one zone, a
\* filter naming no active zone, a filter naming an active and an unknown one.
BackfillRequests ==
    {[start_date |-> Today, end_date |-> Today, zone_filter |-> None],
     [start_date |-> Today, end_date |-> Tomorrow, zone_filter |-> Some({1})],
     [start_date |-> Today, end_date |-> Today, zone_filter |-> Some({99})],
     [start_date |-> Today, end_date |-> Today, zone_filter |-> Some({1, 99})]}

\* backfill_missing is called: zones, gap detection, the set of pairs to
\* fetch (service.rs:330-401).
BF_Start(req, db_ok) ==
    /\ op = "none"
    /\ op' = "backfill"
    /\ request' = req
    /\ LET all_zones == load_zones
           zone_codes == zone_codes_of(all_zones, req.zone_filter)
           gaps == find_gaps(table, req.start_date, req.end_date, zone_codes)
           dates_to_fetch == {<<gaps[i][1], gaps[i][2]>> : i \in 1..Len(gaps)}
           found == [dates_checked |-> dates_checked_of(req.start_date, req.end_date),
                     dates_with_gaps |-> 0,
                     prices_fetched |-> 0,
                     prices_stored |-> 0,
                     gaps_found |-> [i \in 1..Len(gaps) |->
                         <<gaps[i][1], gaps[i][2], DayHours - gaps[i][3]>>],
                     errors |-> <<>>]
       IN  IF ~db_ok
           THEN /\ ret' = AnyhowErr("load_zones")
                /\ pc' = "done"
                /\ UNCHANGED <<zones, todo, summary>>
           ELSE IF zone_codes = <<>>
           THEN /\ ret' = AnyhowErr("No valid zones found")
                /\ pc' = "done"
                /\ UNCHANGED <<zones, todo, summary>>
           ELSE IF gaps = <<>>
           THEN /\ ret' = Ok(found)
                /\ pc' = "done"
                /\ summary' = found
                /\ UNCHANGED <<zones, todo>>
           ELSE /\ summary' = [found EXCEPT !.dates_with_gaps =
                                   dates_with_gaps_of(dates_to_fetch)]
                /\ zones' = all_zones
                /\ todo' = dates_to_fetch
                /\ pc' = "bf_fetch"
                /\ ret' = ret
    /\ results' = <<>>
    /\ upserts' = <<>>
    /\ all_prices' = <<>>
    /\ UNCHANGED <<active, table_start, phase, pending, inflight, combined, fetch_id, fetch_log,
                   table>>

\* A mutation of the loop: the first failed pair ends it.
LoopEnds_on_error(remaining, res) == remaining = {} \/ ~res.ok

\* the loop over dates_to_fetch ends when the set is exhausted, whatever the
\* pair's result (service.rs:406-427)
LoopEnds(remaining, res) == remaining = {}

\* One iteration of `for (date, zone_code) in dates_to_fetch`, in the
\* HashSet's order, with the result of its fetch (service.rs:406-427).
BF_Fetch(pair, res) ==
    /\ op = "backfill"
    /\ pc = "bf_fetch"
    /\ pair \in todo
    /\ todo' = todo \ {pair}
    /\ IF pair[2] \notin Range(zones)
       THEN /\ summary' = [summary EXCEPT !.errors =
                               Append(@, <<pair[2], pair[1], "Zone not found">>)]
            /\ UNCHANGED <<results, all_prices>>
       ELSE /\ results' = Append(results,
                               [zone |-> pair[2], date |-> pair[1], result |-> res])
            /\ IF res.ok
               THEN /\ summary' = [summary EXCEPT !.prices_fetched = @ + Len(res.val)]
                    /\ all_prices' = all_prices \o res.val
               ELSE IF res.kind = "NoData"
               THEN UNCHANGED <<summary, all_prices>>
               ELSE /\ summary' = [summary EXCEPT !.errors =
                                       Append(@, <<pair[2], pair[1], res.kind>>)]
                    /\ all_prices' = all_prices
    /\ pc' = IF LoopEnds(todo', res) THEN "bf_store" ELSE "bf_fetch"
    /\ UNCHANGED <<active, request, table_start, op, phase, zones, pending, inflight, combined, fetch_id,
                   fetch_log, upserts, ret, table>>

\* The fetched prices are stored and backfill_missing returns
\* (service.rs:429-446).
BF_Store(db_ok) ==
    /\ op = "backfill"
    /\ pc = "bf_store"
    /\ LET r == upsert_prices(table, all_prices, db_ok)
       IN  IF all_prices = <<>>
           THEN /\ ret' = Ok(summary)
                /\ UNCHANGED <<table, upserts, summary>>
           ELSE /\ upserts' = Append(upserts, all_prices)
                /\ table' = r.table
                /\ IF r.ok
                   THEN /\ summary' = [summary EXCEPT !.prices_stored = r.val]
                        /\ ret' = Ok(summary')
                   ELSE /\ summary' = summary
                        /\ ret' = AnyhowErr(r.kind)
    /\ pc' = "done"
    /\ UNCHANGED <<active, request, table_start, op, phase, zones, pending, inflight, todo, results,
                   all_prices, combined, fetch_id, fetch_log>>

\* ------------------------------------------------------------------------
\* The transaction of upsert_prices, step by step
\* ------------------------------------------------------------------------

TxIdle ==
    /\ txPc = "idle"
    /\ txRows = {}

\* A mutation of the driver: a transaction dropped without commit is
\* committed.
Rollback_commits(committed, working) == working

\* sqlx::Transaction dropped without commit (an early return through `?`, or
\* the future dropped at an await): the statement's effect is discarded
Rollback(committed, working) == committed

\* upsert_prices(&batch) is called: the empty check and pool.begin()
\* (repository.rs:65-86).
TxBegin(db_ok) ==
    /\ txPc = "idle"
    /\ IF batch = <<>>
       THEN /\ lastUpsert' = Ok(0)
            /\ txPc' = "returned"
            /\ txRows' = txRows
       ELSE IF db_ok
       THEN /\ txPc' = "begun"
            /\ txRows' = table
            /\ lastUpsert' = lastUpsert
       ELSE /\ lastUpsert' = AnyhowErr("upsert_prices: connection")
            /\ txPc' = "returned"
            /\ txRows' = txRows
    /\ UNCHANGED <<table, table0, batch, nUpserts>>

\* The INSERT ... ON CONFLICT DO UPDATE runs inside the transaction
\* (repository.rs:88-107); an error returns through `?`.
TxExecute(db_ok) ==
    /\ txPc = "begun"
    /\ LET r == upsert_prices(txRows, batch, db_ok)
       IN  IF r.ok
           THEN /\ txRows' = r.table
                /\ txPc' = "executed"
                /\ UNCHANGED <<table, lastUpsert>>
           ELSE /\ table' = Rollback(table, txRows)
                /\ lastUpsert' = AnyhowErr(r.kind)
                /\ txPc' = "returned"
                /\ txRows' = txRows
    /\ UNCHANGED <<table0, batch, nUpserts>>

\* tx.commit() (repository.rs:109-110).
TxCommit(db_ok) ==
    /\ txPc = "executed"
    /\ IF db_ok
       THEN /\ table' = txRows
            /\ lastUpsert' = Ok(Len(batch))
       ELSE /\ table' = Rollback(table, txRows)
            /\ lastUpsert' = AnyhowErr("upsert_prices: connection")
    /\ txPc' = "returned"
    /\ UNCHANGED <<table0, batch, nUpserts, txRows>>

\* The task running upsert_prices is cancelled at an await point: the future
\* and its transaction are dropped.
TxCancel ==
    /\ txPc \in {"begun", "executed"}
    /\ table' = Rollback(table, txRows)
    /\ txPc' = "cancelled"
    /\ UNCHANGED <<table0, batch, nUpserts, lastUpsert, txRows>>

\* ------------------------------------------------------------------------
\* Jobs that overlap: each parses a publication, later upserts it
\* ------------------------------------------------------------------------

NJobs == 2

JobsIdle ==
    /\ jobs = <<>>
    /\ written = {}

JobsInit ==
    /\ jobs = [j \in 1..NJobs |-> [pc |-> "idle", prices |-> <<>>]]
    /\ written = {}

\* A job's zone fetch returns: Price::from_mwh stamps the record with
\* fetched_at = Utc::now() (price.rs:19-36); time passes.
JobFetch(j, zone_code, kwh) ==
    /\ jobs[j].pc = "idle"
    /\ jobs' = [jobs EXCEPT ![j] =
           [pc |-> "fetched",
            prices |-> <<Price(Today * DayHours, zone_code, kwh, now)>>]]
    /\ now' = now + 1
    /\ UNCHANGED <<table, written>>

\* The job's batch upsert commits (service.rs:99-107, 285-289, 430-434).
JobUpsert(j) ==
    /\ jobs[j].pc = "fetched"
    /\ table' = upsert_prices(table, jobs[j].prices, TRUE).table
    /\ written' = written \cup Range(jobs[j].prices)
    /\ jobs' = [jobs EXCEPT ![j].pc = "done"]
    /\ now' = now

\* ------------------------------------------------------------------------
\* Two batches upserted in both orders
\* ------------------------------------------------------------------------

OrderIdle ==
    /\ batchB = <<>>
    /\ tableAB = None
    /\ tableBA = None

\* ------------------------------------------------------------------------
\* The market-document normalizer (xml.rs, validation.rs, price.rs)
\* ------------------------------------------------------------------------
\* In this part an instant is a number of minutes since a UTC midnight, a
\* timestamp string is held as the instant it denotes (None when it does not
\* parse), a price.amount is a whole number of EUR/MWh and a Decimal is a
\* number of units of 10^-DecimalPlaces.

DecimalPlaces == 5

RECURSIVE Pow10(_)
Pow10(n) == IF n = 0 THEN 1 ELSE 10 * Pow10(n - 1)

\* Price::from_mwh: the f64 quotient price_mwh / 1000.0, printed and read
\* back as a Decimal (for a whole-number amount the printed quotient is the
\* exact decimal amount/1000); currency EUR, fetched_at = Utc::now()
from_mwh(timestamp, bidding_zone, price_mwh, resolution, at) ==
    [timestamp |-> timestamp, bidding_zone |-> bidding_zone,
     price_kwh |-> (price_mwh * Pow10(DecimalPlaces)) \div 1000,
     currency |-> "EUR", resolution |-> resolution, fetched_at |-> at]

\* Decimal / Decimal: the quotient keeps the digits the type holds and the
\* last one is rounded
decimal_div(sum, count) == (2 * sum + count) \div (2 * count)

\* xml.rs parse_timestamp
parse_timestamp(timestamp_str) ==
    IF timestamp_str = None THEN Err("TimestampParseError", 0)
    ELSE Ok(timestamp_str.val)

\* xml.rs parse_resolution, in minutes: the literals, then the ISO-8601
\* fallback (PT1H, PT20M), a zero duration and anything else rejected
parse_resolution(resolution) ==
    CASE resolution = "PT15M" -> Ok(15)
      [] resolution = "PT30M" -> Ok(30)
      [] resolution = "PT60M" -> Ok(60)
      [] resolution = "P1D"   -> Ok(1440)
      [] resolution = "P7D"   -> Ok(10080)
      [] resolution = "P1Y"   -> Ok(525600)
      [] resolution = "PT1H"  -> Ok(60)
      [] resolution = "PT20M" -> Ok(20)
      [] OTHER                -> Err("InvalidResolution", 0)

\* validation.rs expected_period_count (for end >= start)
expected_period_count(start, end, resolution) == (end - start) \div resolution

\* the HashMap position -> price_amount collected from the points: a later
\* point of the same position replaces an earlier one
point_map(points) ==
    [pos \in {points[i].position : i \in 1..Len(points)} |->
        LET last == CHOOSE i \in 1..Len(points) :
                        /\ points[i].position = pos
                        /\ \A j \in 1..Len(points) :
                               points[j].position = pos => j <= i
        IN  points[last].price_amount]

\* A mutation of the loop: a missing position is skipped, not filled.
forward_fill_present_only(period, start_time, resolution, expected_count, bidding_zone, at) ==
    LET pm == point_map(period.points)
        present == SortedSeq(DOMAIN pm \cap (1..expected_count))
    IN  IF 1 \notin DOMAIN pm THEN Err("MissingFirstPeriod", 0)
        ELSE Ok([k \in 1..Len(present) |->
                    from_mwh(start_time + resolution * (present[k] - 1),
                             bidding_zone, pm[present[k]], period.resolution, at)])

\* A mutation of the loop: a missing position takes the value of position 1,
\* not the running previous value.
forward_fill_from_first(period, start_time, resolution, expected_count, bidding_zone, at) ==
    LET pm == point_map(period.points)
    IN  IF 1 \notin DOMAIN pm THEN Err("MissingFirstPeriod", 0)
        ELSE Ok([p \in 1..expected_count |->
                    from_mwh(start_time + resolution * (p - 1), bidding_zone,
                             IF p \in DOMAIN pm THEN pm[p] ELSE pm[1],
                             period.resolution, at)])

\* A mutation of the loop: previous_price starts at Some(0.0), so a missing
\* position 1 is filled instead of rejected.
forward_fill_zero_first(period, start_time, resolution, expected_count, bidding_zone, at) ==
    LET pm == point_map(period.points)
        previous_price[p \in 0..expected_count] ==
            IF p = 0 THEN 0
            ELSE IF p \in DOMAIN pm THEN pm[p]
            ELSE previous_price[p - 1]
    IN  Ok([p \in 1..expected_count |->
               from_mwh(start_time + resolution * (p - 1), bidding_zone,
                        previous_price[p], period.resolution, at)])

\* The loop `for position in 1..=expected_count` of validate_and_fill_period
\* (validation.rs:104-150): previous_price[p] is the variable after the
\* iteration for position p; an iteration that finds neither a point nor a
\* previous price returns MissingFirstPeriod.
forward_fill(period, start_time, resolution, expected_count, bidding_zone, at) ==
    LET pm == point_map(period.points)
        previous_price[p \in 0..expected_count] ==
            IF p = 0 THEN None
            ELSE IF p \in DOMAIN pm THEN Some(pm[p])
            ELSE previous_price[p - 1]
    IN  IF \E p \in 1..expected_count : previous_price[p] = None
        THEN Err("MissingFirstPeriod", 0)
        ELSE Ok([p \in 1..expected_count |->
                    from_mwh(start_time + resolution * (p - 1), bidding_zone,
                             previous_price[p].val, period.resolution, at)])

\* timestamp.with_minute(0).with_second(0).with_nanosecond(0)
hour_start(timestamp) == timestamp - (timestamp % 60)

RECURSIVE sum_price_kwh(_)
sum_price_kwh(group) ==
    IF group = <<>> THEN 0
    ELSE group[1].price_kwh + sum_price_kwh(Tail(group))

\* A mutation of the aggregation: the first price of the hour, not the mean.
aggregate_to_hourly_first_point(prices, bidding_zone) ==
    IF prices = <<>> THEN prices
    ELSE IF prices[1].resolution \in {"PT60M", "P1D", "P7D", "P1Y"} THEN prices
    ELSE LET hours == SortedSeq({hour_start(prices[i].timestamp) :
                                    i \in 1..Len(prices)})
         IN  [k \in 1..Len(hours) |->
                 LET group == SelectSeq(prices,
                                 LAMBDA q : hour_start(q.timestamp) = hours[k])
                 IN  [timestamp |-> hours[k],
                      bidding_zone |-> bidding_zone,
                      price_kwh |-> group[1].price_kwh,
                      currency |-> group[1].currency,
                      resolution |-> "PT60M",
                      fetched_at |-> group[1].fetched_at]]

\* A mutation of the aggregation: the record keeps the input's resolution.
aggregate_to_hourly_same_resolution(prices, bidding_zone) ==
    IF prices = <<>> THEN prices
    ELSE IF prices[1].resolution \in {"PT60M", "P1D", "P7D", "P1Y"} THEN prices
    ELSE LET hours == SortedSeq({hour_start(prices[i].timestamp) :
                                    i \in 1..Len(prices)})
         IN  [k \in 1..Len(hours) |->
                 LET group == SelectSeq(prices,
                                 LAMBDA q : hour_start(q.timestamp) = hours[k])
                 IN  [timestamp |-> hours[k],
                      bidding_zone |-> bidding_zone,
                      price_kwh |-> decimal_div(sum_price_kwh(group), Len(group)),
                      currency |-> group[1].currency,
                      resolution |-> group[1].resolution,
                      fetched_at |-> group[1].fetched_at]]

\* validation.rs aggregate_to_hourly: prices whose resolution (that of the
\* first one) is PT60M, P1D, P7D or P1Y are returned as they are; the others
\* are grouped by hour and each group gives one PT60M record with the mean,
\* the groups sorted by timestamp.
aggregate_to_hourly(prices, bidding_zone) ==
    IF prices = <<>> THEN prices
    ELSE IF prices[1].resolution \in {"PT60M", "P1D", "P7D", "P1Y"} THEN prices
    ELSE LET hours == SortedSeq({hour_start(prices[i].timestamp) :
                                    i \in 1..Len(prices)})
         IN  [k \in 1..Len(hours) |->
                 LET group == SelectSeq(prices,
                                 LAMBDA q : hour_start(q.timestamp) = hours[k])
                 IN  [timestamp |-> hours[k],
                      bidding_zone |-> bidding_zone,
                      price_kwh |-> decimal_div(sum_price_kwh(group), Len(group)),
                      currency |-> group[1].currency,
                      resolution |-> "PT60M",
                      fetched_at |-> group[1].fetched_at]]

\* the three `?` of validate_and_fill_period (validation.rs:95-97)
parse_period(period) ==
    LET start_time == parse_timestamp(period.time_interval.start)
        end_time == parse_timestamp(period.time_interval.end)
        resolution == parse_resolution(period.resolution)
    IN  IF ~start_time.ok THEN start_time
        ELSE IF ~end_time.ok THEN end_time
        ELSE IF ~resolution.ok THEN resolution
        ELSE Ok([start_time |-> start_time.val, end_time |-> end_time.val,
                 resolution |-> resolution.val])

\* the prices the loop of validate_and_fill_period hands to
\* aggregate_to_hourly; None when the function returns before the loop
forward_filled(period, bidding_zone, at) ==
    LET parsed == parse_period(period)
    IN  IF ~parsed.ok THEN None
        ELSE LET expected_count ==
                     expected_period_count(parsed.val.start_time,
                                           parsed.val.end_time,
                                           parsed.val.resolution)
             IN  IF expected_count = 0 THEN None
                 ELSE forward_fill(period, parsed.val.start_time,
                                   parsed.val.resolution, expected_count,
                                   bidding_zone, at)

\* validation.rs validate_and_fill_period
validate_and_fill_period(period, bidding_zone, at) ==
    LET parsed == parse_period(period)
    IN  IF ~parsed.ok THEN parsed
        ELSE LET expected_count ==
                     expected_period_count(parsed.val.start_time,
                                           parsed.val.end_time,
                                           parsed.val.resolution)
             IN  IF expected_count = 0 THEN Ok(<<>>)
                 ELSE LET filled == forward_filled(period, bidding_zone, at)
                      IN  IF ~filled.ok THEN filled
                          ELSE Ok(aggregate_to_hourly(filled.val, bidding_zone))

\* prices.sort_by_key(|p| p.timestamp): a stable sort
RECURSIVE sort_by_timestamp(_)
sort_by_timestamp(prices) ==
    IF Len(prices) <= 1 THEN prices
    ELSE LET head == sort_by_timestamp(SubSeq(prices, 1, Len(prices) - 1))
             last == prices[Len(prices)]
         IN  SelectSeq(head, LAMBDA q : q.timestamp <= last.timestamp)
             \o <<last>>
             \o SelectSeq(head, LAMBDA q : q.timestamp > last.timestamp)

\* the Periods of a document in the order of the two nested loops
RECURSIVE all_periods(_)
all_periods(time_series) ==
    IF time_series = <<>> THEN <<>>
    ELSE time_series[1] \o all_periods(Tail(time_series))

\* how many Periods extract_prices handles: up to the first one that fails
handled_periods(doc, bidding_zone, at) ==
    LET periods == all_periods(doc)
        failing == {i \in 1..Len(periods) :
                       ~validate_and_fill_period(periods[i], bidding_zone, at).ok}
    IN  IF failing = {} THEN Len(periods)
        ELSE CHOOSE i \in failing : \A j \in failing : i <= j

\* xml.rs PublicationMarketDocument::extract_prices: the prices of every
\* Period of every TimeSeries, concatenated without deduplication and sorted
\* by timestamp; the first failing Period's error is returned.
extract_prices(doc, bidding_zone, at) ==
    LET periods == all_periods(doc)
        n == handled_periods(doc, bidding_zone, at)
        one(i) == validate_and_fill_period(periods[i], bidding_zone, at)
        prices[i \in 0..Len(periods)] ==
            IF i = 0 THEN <<>> ELSE prices[i - 1] \o one(i).val
    IN  IF n > 0 /\ ~one(n).ok THEN one(n)
        ELSE Ok(sort_by_timestamp(prices[Len(periods)]))

\* ---- the documents explored
MaxPosition == 4
Amounts == {1, 2}
NormResolutions == {"PT15M", "PT30M", "PT60M", "PT1H", "PT20M", "PT0S"}

NormIntervals ==
    {[start |-> Some(s), end |-> Some(s + l)] :
        s \in {0, 15}, l \in {0, 45, 60, 120}}
    \cup {[start |-> None, end |-> Some(60)], [start |-> Some(0), end |-> None]}

\* the points of a Period: any positions of 1..MaxPosition, in document order
PointsOf(amount) ==
    LET positions == SortedSeq(DOMAIN amount)
    IN  [i \in 1..Len(positions) |->
            [position |-> positions[i], price_amount |-> amount[positions[i]]]]

PointLists ==
    {PointsOf(amount) :
        amount \in UNION {[S -> Amounts] : S \in SUBSET (1..MaxPosition)}}

Periods ==
    {[time_interval |-> iv, resolution |-> r, points |-> pts] :
        iv \in NormIntervals, r \in NormResolutions, pts \in PointLists}

\* complete Periods of one hour in two resolutions, the next hour, and a
\* Period without position 1
SamplePeriods ==
    {[time_interval |-> [start |-> Some(0), end |-> Some(60)],
      resolution |-> "PT15M",
      points |-> PointsOf([p \in 1..4 |-> 1])],
     [time_interval |-> [start |-> Some(0), end |-> Some(60)],
      resolution |-> "PT60M",
      points |-> PointsOf([p \in 1..1 |-> 2])],
     [time_interval |-> [start |-> Some(60), end |-> Some(120)],
      resolution |-> "PT60M",
      points |-> PointsOf([p \in 1..1 |-> 1])],
     [time_interval |-> [start |-> Some(0), end |-> Some(120)],
      resolution |-> "PT60M",
      points |-> PointsOf([p \in 2..2 |-> 1])]}

\* one Period, or two Periods in one TimeSeries or in two
Documents ==
    {<<(<<p>>)>> : p \in Periods}
    \cup {<<(<<p, q>>)>> : p \in SamplePeriods, q \in SamplePeriods}
    \cup {<<(<<p>>), (<<q>>)>> : p \in SamplePeriods, q \in SamplePeriods}

NormIdle ==
    /\ document = <<>>
    /\ nPc = "idle"
    /\ normalized = <<>>
    /\ extracted = None
    /\ stored = None

NormInit ==
    /\ document \in Documents
    /\ nPc = "parse"
    /\ normalized = <<>>
    /\ extracted = None
    /\ stored = None

\* parse_response decoded a Publication document and calls extract_prices
\* (client.rs:213-215)
ExtractPrices(zone_code) ==
    /\ nPc = "parse"
    /\ extracted' = extract_prices(document, zone_code, now)
    /\ normalized' =
           [i \in 1..handled_periods(document, zone_code, now) |->
               LET period == all_periods(document)[i]
               IN  [period |-> period,
                    filled |-> forward_filled(period, zone_code, now),
                    result |-> validate_and_fill_period(period, zone_code, now)]]
    /\ nPc' = IF extracted'.ok THEN "store" ELSE "done"
    /\ UNCHANGED <<document, stored, table, now>>

\* the fetched prices are written by the single upsert of the orchestrator
\* (service.rs:104-107)
StoreExtracted(db_ok) ==
    /\ nPc = "store"
    /\ stored' = upsert_prices(table, extracted.val, db_ok)
    /\ table' = stored'.table
    /\ nPc' = "done"
    /\ UNCHANGED <<document, normalized, extracted, now>>

\* ------------------------------------------------------------------------
\* PriceFetchScheduler (scheduler/mod.rs)
\* ------------------------------------------------------------------------

MaxDays == 1

\* the jobs added by start(), in the order they are added
SchedJobs ==
    <<"primary_fetch_13:00", "retry_1_14:00", "retry_2_15:00", "retry_3_16:00">>

JobStatuses == {"success", "failure"}

\* the hour field of the job's cron expression, evaluated in Europe/Oslo
cron_hour(job_name) ==
    CASE job_name = "primary_fetch_13:00" -> 13
      [] job_name = "retry_1_14:00"       -> 14
      [] job_name = "retry_2_15:00"       -> 15
      [] job_name = "retry_3_16:00"       -> 16

\* A mutation of the job closures: every job runs the full fetch.
job_operation_always_full(job_name) == "fetch_all_prices"

\* the FetcherService operation the job's closure awaits
job_operation(job_name) ==
    IF job_name = "primary_fetch_13:00" THEN "fetch_all_prices"
    ELSE "fetch_tomorrow_if_missing"

TotalFailures ==
    LET RECURSIVE upto(_)
        upto(k) == IF k = 0 THEN 0
                   ELSE executions[<<SchedJobs[k], "failure">>] + upto(k - 1)
    IN  upto(Len(SchedJobs))

SchedIdle ==
    /\ day = 0
    /\ clock = 0
    /\ started = <<>>
    /\ running = [j \in Range(SchedJobs) |-> 0]
    /\ executions = [k \in Range(SchedJobs) \X JobStatuses |-> 0]
    /\ durations = [j \in Range(SchedJobs) |-> 0]

\* the scheduler is started before or in the middle of the job hours
SchedInit ==
    /\ day = 0
    /\ clock \in {11, 14}
    /\ started = <<>>
    /\ running = [j \in Range(SchedJobs) |-> 0]
    /\ executions = [k \in Range(SchedJobs) \X JobStatuses |-> 0]
    /\ durations = [j \in Range(SchedJobs) |-> 0]

\* The wall clock reaches the next hour: every job whose cron expression
\* matches it is spawned; its closure takes the start instant and calls its
\* operation (scheduler/mod.rs:25-31, 61-67).
HourTick ==
    /\ day < MaxDays
    /\ clock' = (clock + 1) % 24
    /\ day' = IF clock = 23 THEN day + 1 ELSE day
    /\ LET due == SelectSeq(SchedJobs, LAMBDA j : cron_hour(j) = clock')
       IN  /\ started' = started \o
                  [i \in 1..Len(due) |->
                      [day |-> day', hour |-> clock', job_name |-> due[i],
                       operation |-> job_operation(due[i]),
                       failures_before |-> TotalFailures]]
           /\ running' = [j \in Range(SchedJobs) |->
                             running[j] + IF j \in Range(due) THEN 1 ELSE 0]
    /\ UNCHANGED <<executions, durations>>

\* The operation awaited by an execution of job_name returns Ok or Err: the
\* closure records one execution with the status and one duration
\* (scheduler/mod.rs:31-48, 67-89).
JobReturns(job_name, ok) ==
    /\ running[job_name] > 0
    /\ running' = [running EXCEPT ![job_name] = @ - 1]
    /\ executions' =
           [executions EXCEPT
               ![<<job_name, IF ok THEN "success" ELSE "failure">>] = @ + 1]
    /\ durations' = [durations EXCEPT ![job_name] = @ + 1]
    /\ UNCHANGED <<day, clock, started>>

\* ------------------------------------------------------------------------
\* Concurrent calls of fetch_day_ahead_prices sharing the rate limiter
\* ------------------------------------------------------------------------
\* Instants are counted from the last refill (only differences of Instants
\* are observable), in seconds: every try_acquire moves the origin to `now`,
\* so last_refill stays 0 and the wake-up instants of the sleepers are
\* shifted.  Beyond a full Window after the last refill the bucket is full
\* and every sleep of the acquire loop has ended, so `now` stops there.

NCallers == 2
MaxCalls == 2
Callers == 1..NCallers

\* the values of entsoe.rate_limit_per_minute explored (config/mod.rs:30, a
\* u32 with no validation)
ConfiguredRates == {0, 1, 2}

\* A mutation of try_acquire: a token is taken whenever the count is positive.
try_acquire_any_token(tok, maxT, elapsed) ==
    LET filled == refill(tok, maxT, elapsed)
    IN  IF filled > 0
        THEN [tokens |-> filled - TokenUnit, wait_duration |-> None,
              panics |-> FALSE]
        ELSE IF refill_rate_per_sec(maxT) = 0
        THEN [tokens |-> filled, wait_duration |-> None, panics |-> TRUE]
        ELSE [tokens |-> filled,
              wait_duration |->
                  Some((TokenUnit - filled) \div refill_rate_per_sec(maxT)),
              panics |-> FALSE]

\* TokenBucketRateLimiter::try_acquire on a bucket holding `tok`, `elapsed`
\* seconds after its last refill: the count it leaves and the Option<Duration>
\* it returns, in seconds.  With refill_rate_per_sec = 0.0 the wait is
\* 1.0 / 0.0 = +inf and Duration::from_secs_f64 panics, after the refill.
try_acquire(tok, maxT, elapsed) ==
    LET filled == refill(tok, maxT, elapsed)
    IN  IF filled >= TokenUnit
        THEN [tokens |-> filled - TokenUnit, wait_duration |-> None,
              panics |-> FALSE]
        ELSE IF refill_rate_per_sec(maxT) = 0
        THEN [tokens |-> filled, wait_duration |-> None, panics |-> TRUE]
        ELSE [tokens |-> filled,
              wait_duration |->
                  Some((TokenUnit - filled) \div refill_rate_per_sec(maxT)),
              panics |-> FALSE]

\* A mutation of acquire_rate_limit_permit: the guard lives until the end of
\* the loop body, across the sleep.
guard_across_sleep(c, wait_duration) ==
    IF wait_duration = None THEN 0 ELSE c

\* A mutation of acquire_rate_limit_permit: the guard is never dropped.
guard_leaked(c, wait_duration) == c

\* The owner of the mutex once the block `{ lock().await; try_acquire() }`
\* is left: the guard is dropped at the end of the block (client.rs:83-86).
guard_after_block(c, wait_duration) == 0

\* A mutation of the acquire loop: the sleep is followed by `break`.
after_sleep_break == "permit"

\* where the acquire loop continues after tokio::time::sleep: at the top of
\* `loop`, with a new lock().await (client.rs:82-95)
after_sleep == "lock"

\* the error_type label of record_fetch_error (client.rs:195-204)
error_type(kind) ==
    CASE kind = "RateLimited"          -> "rate_limited"
      [] kind = "TemporaryUnavailable" -> "temporary"
      [] kind = "InvalidResponse"      -> "invalid_response"
      [] kind = "XmlParseError"        -> "parse_error"
      [] kind = "NoData"               -> "no_data"
      [] kind = "HttpError"            -> "http_error"
      [] kind = "InvalidResolution"    -> "invalid_resolution"
      [] kind = "TimestampParseError"  -> "timestamp_parse_error"

\* The metric events one call of fetch_day_ahead_prices records once the
\* upstream has answered `resp`: the statements of lines 187-207 are reached
\* only when `result` was bound at line 158, not on the `?` returns of lines
\* 155 (send), 160 (reading the body) and 161 (parse_response).
outcome_metrics(zone, resp, at) ==
    LET result == fetch_day_ahead_prices(zone, resp, at)
    IN  IF resp.send = "io_error" THEN <<>>
        ELSE IF resp.status = 200
        THEN IF result.ok THEN <<"duration", "success">> ELSE <<>>
        ELSE <<"duration", error_type(result.kind)>>

IdleCaller ==
    [pc |-> "idle", zone |-> None, calls |-> 0, wake_at |-> 0,
     metrics |-> <<>>, result |-> None]

\* permits: try_acquire calls that returned None; requests: GETs handed to
\* the HTTP client; waits: the counter entsoe_rate_limit_waits_total
NoTraffic == [permits |-> 0, requests |-> 0, waits |-> 0]

\* the responses of the upstream explored here: a transport error, prices,
\* a body neither decoder accepts, and 429
ClientResponses ==
    {[send |-> "io_error", status |-> 0, body |-> Unreadable],
     [send |-> "ok", status |-> 200,
      body |-> [read_ok |-> TRUE, publication |-> "prices",
                acknowledgement |-> None]],
     [send |-> "ok", status |-> 200, body |-> Unparsable],
     [send |-> "ok", status |-> 429, body |-> Unparsable]}

ClientIdle ==
    /\ callers = [c \in Callers |-> IdleCaller]
    /\ holder = 0
    /\ traffic = NoTraffic

\* EntsoeClient::new: the bucket of TokenBucketRateLimiter::new behind a free
\* mutex; no call is running.
ClientInit ==
    /\ callers = [c \in Callers |-> IdleCaller]
    /\ holder = 0
    /\ traffic = NoTraffic
    /\ now = 0
    /\ max_tokens \in {r * TokenUnit : r \in ConfiguredRates}
    /\ tokens = max_tokens
    /\ last_refill = 0
    /\ acquired = <<>>
    /\ lastAcquire = None

\* Time passes (at most up to a full Window after the last refill).
TimePasses(d) ==
    /\ now < Window
    /\ now' = Min(now + d, Window)
    /\ UNCHANGED <<max_tokens, tokens, last_refill, acquired, lastAcquire,
                   callers, holder, traffic>>

\* fetch_day_ahead_prices(zone, date) is called, by a new zone future or,
\* with the same zone, by the next attempt of its retry loop: the "started"
\* event, then the acquire loop reaches lock().await (client.rs:139-142,
\* 82-84).
FetchCalled(c, z) ==
    /\ callers[c].pc \in {"idle", "returned"}
    /\ callers[c].pc = "returned" => z = callers[c].zone
    /\ callers[c].calls < MaxCalls
    /\ callers' = [callers EXCEPT ![c].pc = "lock",
                                  ![c].zone = z,
                                  ![c].calls = @ + 1,
                                  ![c].metrics = <<"started">>,
                                  ![c].result = None]
    /\ UNCHANGED <<bucketVars, holder, traffic>>

\* lock().await returns the guard: the mutex was free.
LockTaken(c) ==
    /\ callers[c].pc = "lock"
    /\ holder = 0
    /\ holder' = c
    /\ callers' = [callers EXCEPT ![c].pc = "try"]
    /\ UNCHANGED <<bucketVars, traffic>>

\* The guard's owner runs try_acquire and leaves the block; with a token the
\* loop breaks, without one the wait is counted and the sleep begins
\* (client.rs:85-93).  The origin of the Instants moves to `now`.
TryAcquireHeld(c) ==
    /\ callers[c].pc = "try"
    /\ holder = c
    /\ LET r == try_acquire(tokens, max_tokens, now - last_refill)
           shifted == [k \in Callers |->
                          IF callers[k].pc = "sleep"
                          THEN [callers[k] EXCEPT
                                   !.wake_at = IF @ > now THEN @ - now ELSE 0]
                          ELSE callers[k]]
       IN  /\ tokens' = r.tokens
           /\ last_refill' = 0
           /\ now' = 0
           /\ IF r.panics
              THEN /\ holder' = 0
                   /\ callers' = [shifted EXCEPT ![c].pc = "panicked"]
                   /\ traffic' = traffic
              ELSE IF r.wait_duration = None
              THEN /\ holder' = guard_after_block(c, r.wait_duration)
                   /\ callers' = [shifted EXCEPT ![c].pc = "permit"]
                   /\ traffic' = [traffic EXCEPT !.permits = @ + 1]
              ELSE /\ holder' = guard_after_block(c, r.wait_duration)
                   /\ callers' = [shifted EXCEPT
                                      ![c].pc = "sleep",
                                      ![c].wake_at = r.wait_duration.val]
                   /\ traffic' = [traffic EXCEPT !.waits = @ + 1]
    /\ UNCHANGED <<max_tokens, acquired, lastAcquire>>

\* tokio::time::sleep(duration) has lasted at least `duration`; the loop
\* goes on.
SleepEnds(c) ==
    /\ callers[c].pc = "sleep"
    /\ now >= callers[c].wake_at
    /\ callers' = [callers EXCEPT ![c].pc = after_sleep,
                                  ![c].wake_at = 0]
    /\ UNCHANGED <<bucketVars, holder, traffic>>

\* After the permit: the zone's timezone is parsed, the URL built and the GET
\* sent (client.rs:144-155); an unknown timezone returns through `?`.
SendRequest(c) ==
    /\ callers[c].pc = "permit"
    /\ IF callers[c].zone.tz_ok
       THEN /\ callers' = [callers EXCEPT ![c].pc = "sent"]
            /\ traffic' = [traffic EXCEPT !.requests = @ + 1]
       ELSE /\ callers' =
                   [callers EXCEPT
                       ![c].pc = "returned",
                       ![c].result = Err("InvalidResponse", callers[c].calls)]
            /\ traffic' = traffic
    /\ UNCHANGED <<bucketVars, holder>>

\* The upstream answers `resp`: classification, the duration and outcome
\* events, and the return (client.rs:155-209).
ResponseArrives(c, resp) ==
    /\ callers[c].pc = "sent"
    /\ callers' =
           [callers EXCEPT
               ![c].pc = "returned",
               ![c].metrics =
                   @ \o outcome_metrics(callers[c].zone, resp, callers[c].calls),
               ![c].result =
                   fetch_day_ahead_prices(callers[c].zone, resp, callers[c].calls)]
    /\ UNCHANGED <<bucketVars, holder, traffic>>

\* ------------------------------------------------------------------------
\* Successive retry ticks of fetch_tomorrow_if_missing
\* ------------------------------------------------------------------------

MaxTicks == 2

\* The prices of a publication that holds one point only, at the start of the
\* requested window: a Period of resolution PT60M whose timeInterval is the
\* first hour of the zone's local day (parse_response, client.rs:212-216).
FirstPointDocument(zone_code, date) ==
    <<Price(calculate_utc_bounds(date, zone_code)[1], zone_code, 1, now)>>

\* what a zone fetch of a retry tick can return
TickOutcomes(zone_code, date) ==
    FetchOutcomes(zone_code, date) \cup {Ok(FirstPointDocument(zone_code, date))}

\* the zones for which the running invocation fetched a non-empty list of
\* prices that its batch upsert stored
StoredByInvocation ==
    IF summary = None \/ upserts = <<>> THEN {}
    ELSE IF summary.total_prices_stored = 0 THEN {}
    ELSE {results[i].zone : i \in {k \in 1..Len(results) :
                                       /\ results[k].result.ok
                                       /\ results[k].result.val # <<>>}}

TicksIdle ==
    /\ tick = 0
    /\ stored_zones = {}

\* The invocation of one retry tick has returned; the scheduler's next tick
\* of the same UTC day calls fetch_tomorrow_if_missing again
\* (scheduler/mod.rs:57-96).
TickEnds ==
    /\ op = "tomorrow"
    /\ pc = "done"
    /\ tick < MaxTicks
    /\ tick' = tick + 1
    /\ stored_zones' = stored_zones \cup StoredByInvocation
    /\ op' = "none"
    /\ pc' = "idle"
    /\ phase' = "none"
    /\ zones' = <<>>
    /\ pending' = <<>>
    /\ inflight' = {}
    /\ todo' = {}
    /\ results' = <<>>
    /\ summary' = None
    /\ all_prices' = <<>>
    /\ combined' = None
    /\ fetch_id' = 0
    /\ upserts' = <<>>
    /\ ret' = None
    /\ request' = None
    /\ table_start' = table
    /\ UNCHANGED <<active, fetch_log, table>>

MoreIdle == ClientIdle /\ TicksIdle

LibIdle == NormIdle /\ SchedIdle /\ MoreIdle

AuxIdle == TxIdle /\ JobsIdle /\ OrderIdle /\ LibIdle

\* records of two keys: the value published first, fetched at 1, and the
\* value republished, fetched at 2
OrderRows == {Price(ts, 1, v, v) : ts \in Timestamps, v \in PriceValues}

\* upsert_prices(a) then upsert_prices(b), both committed
upsert_both(tbl, a, b) ==
    upsert_prices(upsert_prices(tbl, a, TRUE).table, b, TRUE).table

UpsertAB ==
    /\ tableAB = None
    /\ tableAB' = Some(upsert_both(table0, batch, batchB))
    /\ UNCHANGED <<table, table0, batch, batchB, tableBA>>

UpsertBA ==
    /\ tableBA = None
    /\ tableBA' = Some(upsert_both(table0, batchB, batch))
    /\ UNCHANGED <<table, table0, batch, batchB, tableAB>>

\* ------------------------------------------------------------------------
\* Specifications of FetcherService
\* ------------------------------------------------------------------------

NFanoutZones == 6

OrchStart ==
    /\ op = "none"
    /\ pc = "idle"
    /\ phase = "none"
    /\ zones = <<>>
    /\ pending = <<>>
    /\ inflight = {}
    /\ todo = {}
    /\ results = <<>>
    /\ summary = None
    /\ all_prices = <<>>
    /\ combined = None
    /\ fetch_id = 0
    /\ fetch_log = <<>>
    /\ upserts = <<>>
    /\ ret = None
    /\ request = None
    /\ table_start = table

ClockAt(t) ==
    /\ now = t
    /\ max_tokens = 0
    /\ tokens = 0
    /\ last_refill = 0
    /\ acquired = <<>>
    /\ lastAcquire = None

\* ---- Spec: one operation of FetcherService (fetch_all_prices,
\* fetch_tomorrow_if_missing or backfill_missing) over any set of active
\* zones, some of which already hold tomorrow's rows; every zone fetch returns
\* any of FetchOutcomes and every database call may fail.
Init ==
    /\ active \in SUBSET (1..NZones)
    /\ table \in {UNION {StoredTomorrow(z) : z \in S} : S \in SUBSET active}
    /\ OrchStart
    /\ ClockAt(1)
    /\ RetryInit
    /\ UpsertIdle
    /\ AuxIdle

others == <<retryVars, upsertVars, bucketVars, auxVars>>

FA_StartStep == (\E db_ok \in BOOLEAN : FA_Start(db_ok)) /\ UNCHANGED others
FDAZ_LoadStep == (\E db_ok \in BOOLEAN : FDAZ_Load(db_ok)) /\ UNCHANGED others
StartZoneStep == StartZone /\ UNCHANGED others
CompleteZoneStep ==
    /\ \E z \in inflight : \E res \in FetchOutcomes(z, CurrentDate) :
           CompleteZone(z, res)
    /\ UNCHANGED others
ClassifyStep == Classify /\ UNCHANGED others
UpsertStep == (\E db_ok \in BOOLEAN : Upsert(db_ok)) /\ UNCHANGED others
CompleteStep == (\E db_ok \in BOOLEAN : Complete(db_ok)) /\ UNCHANGED others
TM_CheckStep == (\E db_ok \in BOOLEAN : TM_Check(db_ok)) /\ UNCHANGED others
TM_SelectStep == (\E db_ok \in BOOLEAN : TM_Select(db_ok)) /\ UNCHANGED others
TM_LogStartStep == (\E db_ok \in BOOLEAN : TM_LogStart(db_ok)) /\ UNCHANGED others
BF_StartStep ==
    /\ \E req \in BackfillRequests : \E db_ok \in BOOLEAN : BF_Start(req, db_ok)
    /\ UNCHANGED others
BF_FetchStep ==
    /\ \E pair \in todo : \E res \in FetchOutcomes(pair[2], pair[1]) :
           BF_Fetch(pair, res)
    /\ UNCHANGED others
BF_StoreStep == (\E db_ok \in BOOLEAN : BF_Store(db_ok)) /\ UNCHANGED others

Next ==
    \/ FA_StartStep
    \/ FDAZ_LoadStep
    \/ StartZoneStep
    \/ CompleteZoneStep
    \/ ClassifyStep
    \/ UpsertStep
    \/ CompleteStep
    \/ TM_CheckStep
    \/ TM_SelectStep
    \/ TM_LogStartStep
    \/ BF_StartStep
    \/ BF_FetchStep
    \/ BF_StoreStep

Spec == Init /\ [][Next]_vars

\* ---- SpecLogUp: as Spec, with the fetch_log UPDATE of log_fetch_complete
\* always succeeding.
CompleteOkStep == Complete(TRUE) /\ UNCHANGED others

NextLogUp ==
    \/ FA_StartStep
    \/ FDAZ_LoadStep
    \/ StartZoneStep
    \/ CompleteZoneStep
    \/ ClassifyStep
    \/ UpsertStep
    \/ CompleteOkStep
    \/ TM_CheckStep
    \/ TM_SelectStep
    \/ TM_LogStartStep

SpecLogUp == Init /\ [][NextLogUp]_vars

\* ---- SpecFanout: fetch_all_prices or fetch_tomorrow_if_missing over more
\* active zones than the buffer holds, the database available, every zone
\* reporting no data; the completion order is free.
InitFanout ==
    /\ active = 1..NFanoutZones
    /\ table = {}
    /\ OrchStart
    /\ ClockAt(1)
    /\ RetryInit
    /\ UpsertIdle
    /\ AuxIdle

FanoutFAStartStep == FA_Start(TRUE) /\ UNCHANGED others
FanoutLoadStep == FDAZ_Load(TRUE) /\ UNCHANGED others
FanoutCompleteZoneStep ==
    /\ \E z \in inflight : CompleteZone(z, Ok(<<>>))
    /\ UNCHANGED others
FanoutUpsertStep == Upsert(TRUE) /\ UNCHANGED others
FanoutTMCheckStep == TM_Check(TRUE) /\ UNCHANGED others
FanoutTMSelectStep == TM_Select(TRUE) /\ UNCHANGED others
FanoutTMLogStartStep == TM_LogStart(TRUE) /\ UNCHANGED others

NextFanout ==
    \/ FanoutFAStartStep
    \/ FanoutLoadStep
    \/ StartZoneStep
    \/ FanoutCompleteZoneStep
    \/ ClassifyStep
    \/ FanoutUpsertStep
    \/ CompleteOkStep
    \/ FanoutTMCheckStep
    \/ FanoutTMSelectStep
    \/ FanoutTMLogStartStep

SpecFanout == InitFanout /\ [][NextFanout]_vars

\* ---- SpecBackfill: backfill_missing over all zones active and a table
\* holding, for each (date, zone), none, 20 or all 24 hours of the UTC date.
StoredCounts == {0, 20, DayHours}

\* the first n hours of a UTC date, stored by an earlier fetch
StoredDay(zone_code, date, n) ==
    {Price(date * DayHours + h, zone_code, 0, 0) : h \in 0..(n - 1)}

BackfillPairs == (Today..Tomorrow) \X (1..NZones)

BackfillTables ==
    {UNION {StoredDay(p[2], p[1], f[p]) : p \in BackfillPairs} :
        f \in [BackfillPairs -> StoredCounts]}

InitBackfill ==
    /\ active = 1..NZones
    /\ table \in BackfillTables
    /\ OrchStart
    /\ ClockAt(1)
    /\ RetryInit
    /\ UpsertIdle
    /\ AuxIdle

NextBackfill ==
    \/ BF_StartStep
    \/ BF_FetchStep
    \/ BF_StoreStep

SpecBackfill == InitBackfill /\ [][NextBackfill]_vars

\* ------------------------------------------------------------------------
\* Specifications of the client, the repository and the rate limiter
\* ------------------------------------------------------------------------

OrchIdle ==
    /\ active = {}
    /\ op = "none"
    /\ pc = "idle"
    /\ phase = "none"
    /\ zones = <<>>
    /\ pending = <<>>
    /\ inflight = {}
    /\ todo = {}
    /\ results = <<>>
    /\ summary = None
    /\ all_prices = <<>>
    /\ combined = None
    /\ fetch_id = 0
    /\ fetch_log = <<>>
    /\ upserts = <<>>
    /\ ret = None
    /\ request = None
    /\ table_start = {}

\* ---- SpecRetry: one call of fetch_day_ahead_prices_with_retry against an
\* upstream that answers each attempt with any response.
InitRetry ==
    RetryInit /\ table = {} /\ UpsertIdle /\ BucketIdle /\ OrchIdle /\ AuxIdle

RetryCallStep ==
    /\ \E z \in RetryZones : RetryCall(z)
    /\ UNCHANGED <<table, upsertVars, bucketVars, orchVars, auxVars>>

RetryAttemptStep ==
    /\ \E resp \in Responses : RetryAttempt(resp)
    /\ UNCHANGED <<table, upsertVars, bucketVars, orchVars, auxVars>>

RetrySleepStep ==
    /\ \E j \in JitterPermille : RetrySleep(j)
    /\ UNCHANGED <<table, upsertVars, bucketVars, orchVars, auxVars>>

NextRetry == RetryCallStep \/ RetryAttemptStep \/ RetrySleepStep

SpecRetry == InitRetry /\ [][NextRetry]_vars

\* ---- SpecUpsert: any table, any batch, the batch upserted repeatedly with
\* the database available.
InitUpsert == UpsertInit /\ RetryInit /\ BucketIdle /\ OrchIdle /\ AuxIdle

UpsertAgainStep ==
    /\ UpsertAgain(TRUE)
    /\ UNCHANGED <<retryVars, bucketVars, orchVars, auxVars>>

NextUpsert == UpsertAgainStep

SpecUpsert == InitUpsert /\ [][NextUpsert]_vars

\* ---- SpecBucket: any configured rate, callers acquiring at any instants.
InitBucket ==
    BucketInit /\ RetryInit /\ table = {} /\ UpsertIdle /\ OrchIdle /\ AuxIdle

AdvanceStep ==
    /\ \E d \in Advances : Advance(d)
    /\ UNCHANGED <<retryVars, table, upsertVars, orchVars, auxVars>>

TryAcquireStep ==
    /\ TryAcquire
    /\ UNCHANGED <<retryVars, table, upsertVars, orchVars, auxVars>>

NextBucket == AdvanceStep \/ TryAcquireStep

SpecBucket == InitBucket /\ [][NextBucket]_vars

\* ---- SpecTx: one call of upsert_prices on any table with any batch, the
\* database failing at any step, the task cancelled at any await.
InitTx ==
    /\ UpsertInit
    /\ RetryInit
    /\ BucketIdle
    /\ OrchIdle
    /\ TxIdle
    /\ JobsIdle
    /\ OrderIdle
    /\ LibIdle

txOthers == <<retryVars, bucketVars, orchVars, jobVars, orderVars, libVars>>

TxBeginStep == (\E db_ok \in BOOLEAN : TxBegin(db_ok)) /\ UNCHANGED txOthers
TxExecuteStep == (\E db_ok \in BOOLEAN : TxExecute(db_ok)) /\ UNCHANGED txOthers
TxCommitStep == (\E db_ok \in BOOLEAN : TxCommit(db_ok)) /\ UNCHANGED txOthers
TxCancelStep == TxCancel /\ UNCHANGED txOthers

NextTx == TxBeginStep \/ TxExecuteStep \/ TxCommitStep \/ TxCancelStep

SpecTx == InitTx /\ [][NextTx]_vars

\* ---- SpecOverlap: NJobs jobs fetch and upsert in any interleaving.
InitOverlap ==
    /\ table = {}
    /\ JobsInit
    /\ ClockAt(1)
    /\ RetryInit
    /\ UpsertIdle
    /\ OrchIdle
    /\ TxIdle
    /\ OrderIdle
    /\ LibIdle

jobOthers ==
    <<retryVars, upsertVars, max_tokens, tokens, last_refill, acquired,
      lastAcquire, orchVars, txVars, orderVars, libVars>>

JobFetchStep ==
    /\ \E j \in 1..NJobs : \E z \in UpsertZones : \E v \in PriceValues :
           JobFetch(j, z, v)
    /\ UNCHANGED jobOthers

JobUpsertStep == (\E j \in 1..NJobs : JobUpsert(j)) /\ UNCHANGED jobOthers

NextOverlap == JobFetchStep \/ JobUpsertStep

SpecOverlap == InitOverlap /\ [][NextOverlap]_vars

\* ---- SpecOrder: any two batches of up to MaxBatch records, upserted in
\* both orders on the same table.
InitOrder ==
    /\ table \in {{}, {Price(0, 1, 1, 0)}}
    /\ table0 = table
    /\ batch \in SeqsUpTo(OrderRows, MaxBatch)
    /\ batchB \in SeqsUpTo(OrderRows, MaxBatch)
    /\ tableAB = None
    /\ tableBA = None
    /\ nUpserts = 0
    /\ lastUpsert = None
    /\ RetryInit
    /\ BucketIdle
    /\ OrchIdle
    /\ TxIdle
    /\ JobsIdle
    /\ LibIdle

orderOthers ==
    <<retryVars, nUpserts, lastUpsert, bucketVars, orchVars, txVars, jobVars, libVars>>

UpsertABStep == UpsertAB /\ UNCHANGED orderOthers
UpsertBAStep == UpsertBA /\ UNCHANGED orderOthers

NextOrder == UpsertABStep \/ UpsertBAStep

SpecOrder == InitOrder /\ [][NextOrder]_vars

\* ---- SpecNormalize: one Publication document is normalized by
\* extract_prices and the prices are written by one upsert.
InitNormalize ==
    /\ NormInit
    /\ SchedIdle
    /\ MoreIdle
    /\ table = {}
    /\ ClockAt(1)
    /\ RetryInit
    /\ UpsertIdle
    /\ OrchIdle
    /\ TxIdle
    /\ JobsIdle
    /\ OrderIdle

normOthers ==
    <<retryVars, upsertVars, max_tokens, tokens, last_refill, acquired,
      lastAcquire, orchVars, txVars, jobVars, orderVars, schedVars, moreVars>>

ExtractPricesStep ==
    (\E zone_code \in {1} : ExtractPrices(zone_code)) /\ UNCHANGED normOthers

StoreExtractedStep ==
    (\E db_ok \in BOOLEAN : StoreExtracted(db_ok)) /\ UNCHANGED normOthers

NextNormalize == ExtractPricesStep \/ StoreExtractedStep

SpecNormalize == InitNormalize /\ [][NextNormalize]_vars

\* ---- SpecSched: the scheduler's clock runs for MaxDays days; every
\* execution's operation returns Ok or Err at any later time.
InitSched ==
    /\ SchedInit
    /\ NormIdle
    /\ MoreIdle
    /\ table = {}
    /\ RetryInit
    /\ UpsertIdle
    /\ BucketIdle
    /\ OrchIdle
    /\ TxIdle
    /\ JobsIdle
    /\ OrderIdle

schedOthers ==
    <<retryVars, table, upsertVars, bucketVars, orchVars, txVars, jobVars,
      orderVars, normVars, moreVars>>

HourTickStep == HourTick /\ UNCHANGED schedOthers

JobReturnsStep ==
    /\ \E job_name \in Range(SchedJobs) : \E ok \in BOOLEAN :
           JobReturns(job_name, ok)
    /\ UNCHANGED schedOthers

NextSched == HourTickStep \/ JobReturnsStep

SpecSched == InitSched /\ [][NextSched]_vars

\* ---- SpecClient: NCallers tasks call fetch_day_ahead_prices up to MaxCalls
\* times each, sharing one rate limiter of any configured rate; time passes
\* freely and the upstream answers each request with any response.
InitClient ==
    /\ ClientInit
    /\ TicksIdle
    /\ RetryInit
    /\ table = {}
    /\ UpsertIdle
    /\ OrchIdle
    /\ TxIdle
    /\ JobsIdle
    /\ OrderIdle
    /\ NormIdle
    /\ SchedIdle

clientOthers ==
    <<retryVars, table, upsertVars, orchVars, txVars, jobVars, orderVars,
      normVars, schedVars, tickVars>>

TimePassesStep == (\E d \in Advances : TimePasses(d)) /\ UNCHANGED clientOthers

FetchCalledStep ==
    /\ \E c \in Callers : \E z \in RetryZones : FetchCalled(c, z)
    /\ UNCHANGED clientOthers

CallerStep(c) ==
    /\ \/ LockTaken(c)
       \/ TryAcquireHeld(c)
       \/ SleepEnds(c)
       \/ SendRequest(c)
       \/ \E resp \in ClientResponses : ResponseArrives(c, resp)
    /\ UNCHANGED clientOthers

LockTakenStep == (\E c \in Callers : LockTaken(c)) /\ UNCHANGED clientOthers
TryAcquireHeldStep ==
    (\E c \in Callers : TryAcquireHeld(c)) /\ UNCHANGED clientOthers
SleepEndsStep == (\E c \in Callers : SleepEnds(c)) /\ UNCHANGED clientOthers
SendRequestStep == (\E c \in Callers : SendRequest(c)) /\ UNCHANGED clientOthers
ResponseArrivesStep ==
    /\ \E c \in Callers : \E resp \in ClientResponses : ResponseArrives(c, resp)
    /\ UNCHANGED clientOthers

NextClient ==
    \/ TimePassesStep
    \/ FetchCalledStep
    \/ LockTakenStep
    \/ TryAcquireHeldStep
    \/ SleepEndsStep
    \/ SendRequestStep
    \/ ResponseArrivesStep

SpecClient == InitClient /\ [][NextClient]_vars

\* ---- SpecClientFair: SpecClient under fair scheduling and advancing time:
\* the runtime polls every task that can take its next step, and the clock
\* moves on.
SpecClientFair ==
    /\ SpecClient
    /\ WF_vars(TimePassesStep)
    /\ \A c \in Callers : WF_vars(CallerStep(c))

\* ---- SpecTicks: fetch_tomorrow_if_missing invoked by successive retry ticks
\* of one UTC day; every zone fetch returns any of TickOutcomes and every
\* database call may fail.
InitTicks == Init

tickOthers == <<retryVars, upsertVars, bucketVars, txVars, jobVars, orderVars,
                normVars, schedVars, clientVars>>

TickCompleteZoneStep ==
    /\ \E z \in inflight : \E res \in TickOutcomes(z, CurrentDate) :
           CompleteZone(z, res)
    /\ UNCHANGED others

TickEndsStep == TickEnds /\ UNCHANGED tickOthers

NextTicks ==
    \/ TM_CheckStep
    \/ TM_SelectStep
    \/ TM_LogStartStep
    \/ StartZoneStep
    \/ TickCompleteZoneStep
    \/ ClassifyStep
    \/ UpsertStep
    \/ CompleteStep
    \/ TickEndsStep

SpecTicks == InitTicks /\ [][NextTicks]_vars

\* ------------------------------------------------------------------------
\* Claims
\* ------------------------------------------------------------------------

TransientKinds == {"RateLimited", "TemporaryUnavailable"}

IsCall(i) == events[i].ev = "call"
IsFailedCall(i) == IsCall(i) /\ ~events[i].res.ok
CallNumber(i) == (i + 1) \div 2

\* C1 (as stated): after upserting a batch N >= 1 times the table holds one
\* row per key of the batch, carrying the batch's values, and every row
\* whose key is not in the batch is as it was before.
C1_UpsertIdempotent ==
    nUpserts >= 1 =>
        /\ \A k \in KeysOf(batch) :
               \E r \in table :
                   /\ Key(r) = k
                   /\ r \in Range(batch)
                   /\ \A r2 \in table : Key(r2) = k => r2 = r
        /\ \A r \in table0 : Key(r) \notin KeysOf(batch) => r \in table
        /\ \A r \in table : Key(r) \notin KeysOf(batch) => r \in table0

\* C2: one call makes at most 4 attempts and at most 3 sleeps, a sleep
\* happens only between two attempts and never after the last one, and when
\* all 4 attempts fail transiently the error returned is the 4th attempt's.
C2_RetryBound ==
    /\ NumCalls <= 4
    /\ NumSleeps <= 3
    /\ \A i \in 1..Len(events) :
           events[i].ev = (IF i % 2 = 1 THEN "call" ELSE "sleep")
    /\ rPc = "done" => Len(events) >= 1 /\ IsCall(Len(events))
    /\ rPc = "sleep" => NumCalls < 4
    /\ (/\ rPc = "done"
        /\ NumCalls = 4
        /\ \A i \in 1..Len(events) :
               IsCall(i) => IsFailedCall(i) /\ events[i].res.kind \in TransientKinds)
       => rResult = events[Len(events)].res /\ rResult.at = 4

C2_Witness ==
    /\ rPc = "done"
    /\ NumCalls = 4
    /\ NumSleeps = 3
    /\ ~rResult.ok
    /\ rResult.kind = "TemporaryUnavailable"
    /\ events[1].res.kind = "RateLimited"

\* C3: an attempt failing with an error other than RateLimited and
\* TemporaryUnavailable is the last thing the call does (no further attempt,
\* no sleep) and its error is the value returned; every sleep follows an
\* attempt that failed with one of those two.
C3_PermanentShortCircuits ==
    /\ \A i \in 1..Len(events) :
           (IsFailedCall(i) /\ events[i].res.kind \notin TransientKinds)
               => /\ i = Len(events)
                  /\ rPc = "done"
                  /\ rResult = events[i].res
    /\ \A i \in 1..Len(events) :
           events[i].ev = "sleep"
               => /\ i > 1
                  /\ IsFailedCall(i - 1)
                  /\ events[i - 1].res.kind \in TransientKinds

C3_Witness ==
    /\ rPc = "done"
    /\ Len(events) = 3
    /\ ~rResult.ok
    /\ rResult.kind = "XmlParseError"
    /\ rResult.at = 2

\* C4 (as stated): an attempt before the 4th that fails with HttpError is
\* retried: it is not where the call ends.
C4_HttpErrorRetried ==
    \A i \in 1..Len(events) :
        (IsFailedCall(i) /\ events[i].res.kind = "HttpError" /\ CallNumber(i) < 4)
            => ~(rPc = "done" /\ i = Len(events))

\* C4 (amended): an attempt that fails with HttpError is never retried: it
\* ends the call at once, without a sleep, and HttpError is returned.
C4_HttpErrorNotRetried ==
    \A i \in 1..Len(events) :
        (IsFailedCall(i) /\ events[i].res.kind = "HttpError")
            => /\ i = Len(events)
               /\ rPc = "done"
               /\ ~rResult.ok
               /\ rResult.kind = "HttpError"
               /\ rResult.at = CallNumber(i)

C4_Witness ==
    /\ rPc = "done"
    /\ Len(events) = 1
    /\ ~rResult.ok
    /\ rResult.kind = "HttpError"

\* The acquisitions inside the 60-second window that ends now.
AcquiredInWindow == Len(SelectSeq(acquired, LAMBDA a : now - a < Window))

InFanoutOp == op \in {"fetch_all", "tomorrow"}

CountWhere(res, Test(_)) == Cardinality({i \in 1..Len(res) : Test(res[i])})

IsSucceeded(item) == item.result.ok /\ item.result.val # <<>>
IsNoData(item) == item.result.ok /\ item.result.val = <<>>
IsFailed(item) == ~item.result.ok

\* C5: when the classification loop of a per-date fanout has run, every zone
\* of the fanout has exactly one result whatever the other zones returned, so
\* succeeded + failed + no_data is the number of zones, each counter is the
\* number of results of its class, and errors holds one string per failed
\* zone; fetch_all_prices fans out over all the active zones.
C5_EveryZoneClassifiedOnce ==
    (InFanoutOp /\ pc = "upsert") =>
        /\ Len(results) = Len(zones)
        /\ \A i \in 1..Len(zones) :
               Cardinality({j \in 1..Len(results) : results[j].zone = zones[i]}) = 1
        /\ summary.succeeded + summary.failed + summary.no_data = Len(zones)
        /\ summary.succeeded = CountWhere(results, IsSucceeded)
        /\ summary.no_data = CountWhere(results, IsNoData)
        /\ summary.failed = CountWhere(results, IsFailed)
        /\ Len(summary.errors) = summary.failed
        /\ op = "fetch_all" => Len(zones) = Cardinality(active)

\* the first zone to finish failed, the other one was still fetched and
\* succeeded
C5_Witness ==
    /\ InFanoutOp
    /\ pc = "upsert"
    /\ Len(zones) = 2
    /\ IsFailed(results[1])
    /\ IsSucceeded(results[2])
    /\ summary.failed = 1
    /\ summary.succeeded = 1

RECURSIVE ConcatOk(_)
ConcatOk(res) ==
    IF res = <<>> THEN <<>>
    ELSE (IF Head(res).result.ok THEN Head(res).result.val ELSE <<>>)
         \o ConcatOk(Tail(res))

\* C6: an invocation of the fanout or of backfill_missing calls upsert_prices
\* at most once, only when no fetch is waiting or in flight, with the
\* concatenation of the successful results and never with an empty batch;
\* an invocation that reaches its end with prices fetched has written them.
C6_SingleBatchWrite ==
    /\ Len(upserts) <= 1
    /\ upserts # <<>> =>
           /\ pending = <<>>
           /\ inflight = {}
           /\ todo = {}
           /\ InFanoutOp => Len(results) = Len(zones)
           /\ upserts[1] = ConcatOk(results)
           /\ upserts[1] # <<>>
    /\ (pc = "complete" /\ ConcatOk(results) # <<>>) => Len(upserts) = 1
    /\ (op = "backfill" /\ pc = "done" /\ ret # None /\ ret.ok
           /\ ConcatOk(results) # <<>>) => Len(upserts) = 1

\* two zones succeeded, one batch holding both documents was written
C6_Witness ==
    /\ Len(upserts) = 1
    /\ CountWhere(results, IsSucceeded) = 2
    /\ Len(upserts[1]) = 2 * Len(Document(1, Today))
    /\ pc \in {"complete", "load", "done"}

\* a failure of either date: a failed zone or a date that failed as a whole
AnyFailure(s) == s.failed > 0 \/ s.errors # <<>>

\* C7: when fetch_all_prices has closed its row, the row's status is error
\* if any failure occurred while fetching either date, otherwise nodata if
\* no zone succeeded, otherwise success.
C7_FinalStatus ==
    (op = "fetch_all" /\ pc = "done" /\ ret # None /\ ret.ok) =>
        fetch_log[fetch_id].status =
            IF AnyFailure(combined) THEN "error"
            ELSE IF combined.succeeded = 0 THEN "nodata"
            ELSE "success"

\* C8: when fetch_all_prices or fetch_tomorrow_if_missing has returned, every
\* row it opened has been completed exactly once, with a terminal status and
\* duration_ms set together.
C8_LogRowClosedOnce ==
    /\ \A i \in 1..Len(fetch_log) :
           /\ fetch_log[i].updates <= 1
           /\ (fetch_log[i].status = "pending") = (fetch_log[i].duration_ms = None)
    /\ (InFanoutOp /\ pc = "done") =>
           \A i \in 1..Len(fetch_log) :
               fetch_log[i].status # "pending" /\ fetch_log[i].updates = 1

\* C10: at most 5 zone fetches are in flight at any moment of a fanout over
\* more zones than that.
C10_FanoutBound == Cardinality(inflight) <= FanoutLimit

\* the buffer is full and a zone is waiting for a slot
C10_Witness ==
    /\ Cardinality(inflight) = FanoutLimit
    /\ pending # <<>>

\* ------------------------------------------------------------------------
\* Backfill and gap detection
\* ------------------------------------------------------------------------

\* the dates and zone codes backfill_missing was asked about
RequestDates == request.start_date..request.end_date
RequestZones == Range(zone_codes_of(load_zones, request.zone_filter))

\* stored rows of a zone with UTC date d
RowsOn(tbl, d, z) ==
    {r \in tbl : /\ r.bidding_zone = z
                 /\ r.timestamp >= d * DayHours
                 /\ r.timestamp < (d + 1) * DayHours}

\* the upstream answered the pair with an empty publication
ReportedNoData(d, z) ==
    \E i \in 1..Len(results) :
        /\ results[i].date = d
        /\ results[i].zone = z
        /\ results[i].result = Ok(<<>>)

\* C11: when backfill_missing has returned Ok with an empty errors list,
\* every (date, zone) of the range holds at least 24 rows of that UTC date,
\* unless the upstream reported no data for the pair.
C11_GapInvariant ==
    (op = "backfill" /\ pc = "done" /\ ret # None /\ ret.ok
        /\ ret.val.errors = <<>>) =>
        \A d \in RequestDates : \A z \in RequestZones :
            \/ Cardinality(RowsOn(table, d, z)) >= DayHours
            \/ ReportedNoData(d, z)

\* the call of find_gaps made by the running backfill_missing has returned
GapsFound ==
    /\ op = "backfill"
    /\ summary # None

\* C12: find_gaps returns exactly the pairs of the range and the zones whose
\* number of stored rows of that UTC date is below 24 (0 for a pair without
\* rows), each once with its count, and no pair holding 24 rows;
\* backfill_missing reports them as (date, zone, 24 - count).
C12_GapDetection ==
    GapsFound =>
        LET g == find_gaps(table_start, request.start_date, request.end_date,
                           zone_codes_of(load_zones, request.zone_filter))
            Count(d, z) == Cardinality(RowsOn(table_start, d, z))
        IN  /\ \A i \in 1..Len(g) :
                   /\ g[i][1] \in RequestDates
                   /\ g[i][2] \in RequestZones
                   /\ g[i][3] = Count(g[i][1], g[i][2])
                   /\ g[i][3] < DayHours
            /\ \A i, j \in 1..Len(g) :
                   (g[i][1] = g[j][1] /\ g[i][2] = g[j][2]) => i = j
            /\ \A d \in RequestDates : \A z \in RequestZones :
                   Count(d, z) < DayHours =>
                       \E i \in 1..Len(g) : g[i][1] = d /\ g[i][2] = z
            /\ summary.gaps_found =
                   [i \in 1..Len(g) |-> <<g[i][1], g[i][2], DayHours - g[i][3]>>]

\* one pair of the range holds 20 rows and is returned with its count, the
\* other holds 24 and is not
C12_Witness ==
    /\ GapsFound
    /\ request.start_date = Today
    /\ request.end_date = Today
    /\ request.zone_filter = None
    /\ Cardinality(RowsOn(table_start, Today, 1)) = 20
    /\ Cardinality(RowsOn(table_start, Today, 2)) = DayHours
    /\ summary.gaps_found = <<<<Today, 1, 4>>>>

\* ------------------------------------------------------------------------
\* fetch_tomorrow_if_missing
\* ------------------------------------------------------------------------

\* the zones a client request was issued for by the running fanout
RequestedZones == inflight \cup {results[i].zone : i \in 1..Len(results)}

\* the active zones without a row of tomorrow's UTC date when the operation
\* was called
MissingTomorrow == {z \in active : RowsOn(table_start, Tomorrow, z) = {}}

\* C13: fetch_tomorrow_if_missing issues no request for a zone that had
\* tomorrow's data when it was checked, issues at most one per zone, and
\* when its fanout is over, or it has returned Ok, every active zone found
\* missing has been fetched exactly once.
C13_OnlyMissingRefetched ==
    op = "tomorrow" =>
        /\ RequestedZones \subseteq MissingTomorrow
        /\ \A i, j \in 1..Len(results) : results[i].zone = results[j].zone => i = j
        /\ \A i \in 1..Len(results) : results[i].zone \notin inflight
        /\ (\/ pc \in {"classify", "upsert", "complete"}
            \/ (pc = "done" /\ ret # None /\ ret.ok)) =>
               /\ inflight = {}
               /\ {results[i].zone : i \in 1..Len(results)} = MissingTomorrow

\* zone 1 had tomorrow's data, zone 2 had not: only zone 2 was fetched
C13_Witness ==
    /\ op = "tomorrow"
    /\ pc = "upsert"
    /\ active = {1, 2}
    /\ MissingTomorrow = {2}
    /\ Len(results) = 1
    /\ results[1].zone = 2

\* C14: when every active zone has tomorrow's data, fetch_tomorrow_if_missing
\* returns at once: no request, no fetch-log row, no upsert, the price table
\* and the fetch log unchanged, and its Ok value is the all-zero summary.
C14_NoOpWhenComplete ==
    (op = "tomorrow" /\ MissingTomorrow = {}) =>
        /\ pc = "done"
        /\ ret.ok => ret = Ok(DefaultSummary)
        /\ RequestedZones = {}
        /\ pending = <<>>
        /\ fetch_id = 0
        /\ fetch_log = <<>>
        /\ upserts = <<>>
        /\ table = table_start

\* two active zones, both with tomorrow's data, the call returned the
\* all-zero summary
C14_Witness ==
    /\ op = "tomorrow"
    /\ active = {1, 2}
    /\ MissingTomorrow = {}
    /\ ret = Ok(DefaultSummary)

\* ------------------------------------------------------------------------
\* Success after transient failures
\* ------------------------------------------------------------------------

LastEvent == events[Len(events)]

\* C18: an attempt that fails with RateLimited or TemporaryUnavailable before
\* the 4th is followed by a backoff sleep and another attempt; the first
\* attempt answered with a valid document ends the call, which returns that
\* attempt's prices after k attempts and k - 1 sleeps, the k - 1 earlier
\* attempts having failed transiently.
C18_SuccessAfterTransient ==
    events # <<>> =>
        /\ (IsFailedCall(Len(events)) /\ LastEvent.res.kind \in TransientKinds
               /\ NumCalls < 4) => rPc = "sleep"
        /\ LastEvent.ev = "sleep" => rPc = "attempt"
        /\ (IsCall(Len(events)) /\ LastEvent.res.ok) =>
               /\ rPc = "done"
               /\ rResult = LastEvent.res
               /\ NumCalls <= 4
               /\ NumSleeps = NumCalls - 1
               /\ Len(events) = 2 * NumCalls - 1
               /\ \A i \in 1..(Len(events) - 1) :
                      IF i % 2 = 1
                      THEN IsFailedCall(i) /\ events[i].res.kind \in TransientKinds
                      ELSE events[i].ev = "sleep"

\* 429, then 503, then 200 with a valid document: success after 3 attempts
\* and 2 waits, of at most 1.2 s and 2.4 s
C18_Witness ==
    /\ rPc = "done"
    /\ Len(events) = 5
    /\ events[1] = CallEvent(Err("RateLimited", 1))
    /\ events[2].ev = "sleep" /\ events[2].ms >= 1000 /\ events[2].ms <= 1200
    /\ events[3] = CallEvent(Err("TemporaryUnavailable", 2))
    /\ events[4].ev = "sleep" /\ events[4].ms >= 2000 /\ events[4].ms <= 2400
    /\ events[5] = CallEvent(Ok("prices"))
    /\ rResult = Ok("prices")

\* ------------------------------------------------------------------------
\* Overlapping writers, upsert order, atomicity
\* ------------------------------------------------------------------------

\* C15: whatever the interleaving of the jobs, the stored row of a key holds
\* the record with the greatest fetched_at among the records upserted for
\* that key.
C15_NewestFetchWins ==
    \A r \in table : \A w \in written :
        Key(w) = Key(r) => w.fetched_at <= r.fetched_at

\* both orders have been applied
BothOrdersDone == tableAB # None /\ tableBA # None

\* C16: upserting batch A then batch B leaves the same table as upserting B
\* then A.
C16_UpsertOrderIrrelevant ==
    BothOrdersDone => tableAB = tableBA

\* the complete effect of the batch on the table the call started from
Applied == {r \in table0 : Key(r) \notin KeysOf(batch)} \cup Range(batch)

\* C17: the committed table is the one before the call or the one with the
\* whole batch applied, never anything between; it is the one before the
\* call while the transaction is open, after a cancellation and after an
\* error return, and the whole batch is applied after an Ok return.
C17_AllOrNothing ==
    /\ table \in {table0, Applied}
    /\ txPc \in {"idle", "begun", "executed", "cancelled"} => table = table0
    /\ (txPc = "returned" /\ ~lastUpsert.ok) => table = table0
    /\ (txPc = "returned" /\ lastUpsert.ok /\ batch # <<>>) => table = Applied

\* the task was cancelled after the statement had run on a batch of two
\* records that changes the table: nothing of it is visible
C17_Witness ==
    /\ txPc = "cancelled"
    /\ Len(batch) = 2
    /\ txRows = Applied
    /\ Applied # table0
    /\ table0 # {}
    /\ table = table0

\* ------------------------------------------------------------------------
\* Ordering inside fetch_all_prices; backfill fetches every gap
\* ------------------------------------------------------------------------

\* where fetch_all_prices stands
FetchAllOrderState ==
    op = "fetch_all" =>
        /\ (RequestedZones # {} \/ pending # <<>> \/ pc # "done") =>
               fetch_id = 1 /\ Len(fetch_log) = 1
        /\ pc \in {"fanout", "classify", "upsert"} =>
               \A i \in 1..Len(results) : results[i].date = CurrentDate
        /\ pc = "complete" => phase = "tomorrow" /\ inflight = {} /\ pending = <<>>
        /\ fetch_id # 0 =>
               /\ fetch_log[fetch_id].updates <= 1
               /\ fetch_log[fetch_id].updates = 1 => pc = "done" /\ phase = "tomorrow"
               /\ pc = "done" => phase = "tomorrow"

\* how fetch_all_prices moves from today's fanout to tomorrow's
FetchAllOrderStep ==
    (op = "fetch_all" /\ phase = "today" /\ phase' # "today") =>
        /\ inflight = {}
        /\ pending = <<>>
        /\ phase' = "tomorrow"
        /\ pc' = "load"

\* C19: in fetch_all_prices the fetch-log row is opened before any zone
\* fetch; today's fanout has no fetch waiting or in flight when it is left;
\* it is left for tomorrow's fanout whatever it returned; the row is
\* completed at most once, after tomorrow's fanout.
C19_FetchAllOrder == []FetchAllOrderState /\ [][FetchAllOrderStep]_vars

\* today's fanout returned an error, tomorrow's fetches are in flight
C19_Witness ==
    /\ op = "fetch_all"
    /\ phase = "tomorrow"
    /\ pc = "fanout"
    /\ inflight # {}
    /\ Len(combined.errors) = 1
    /\ combined.errors[1][1] = "today"
    /\ fetch_log[fetch_id].status = "pending"

\* the gap pairs of the request on the table backfill_missing started from
GapPairs ==
    {p \in RequestDates \X RequestZones :
        Cardinality(RowsOn(table_start, p[1], p[2])) < DayHours}

FetchedPairs == {<<results[i].date, results[i].zone>> : i \in 1..Len(results)}

\* C20: backfill_missing fetches every gap pair exactly once: a pair is
\* either still to fetch or has one result, a failed pair adds one entry to
\* errors and the loop goes on to the remaining pairs, and an Ok return has
\* stored the prices of every successful pair.
C20_BackfillFetchesEveryGap ==
    GapsFound =>
        /\ \A i, j \in 1..Len(results) :
               (results[i].date = results[j].date /\ results[i].zone = results[j].zone)
                   => i = j
        /\ FetchedPairs \cap todo = {}
        /\ FetchedPairs \cup todo = GapPairs
        /\ Len(summary.errors) = CountWhere(results, IsFailed)
        /\ pc \in {"bf_store", "done"} => FetchedPairs = GapPairs
        /\ (pc = "done" /\ ret.ok) =>
               /\ Range(ConcatOk(results)) \subseteq table
               /\ ret.val.prices_stored = Len(ConcatOk(results))
               /\ Len(ret.val.errors) = CountWhere(results, IsFailed)

\* the first pair fetched failed, the second was still fetched and its
\* prices are stored
C20_Witness ==
    /\ GapsFound
    /\ pc = "done"
    /\ ret.ok
    /\ Len(results) = 2
    /\ IsFailed(results[1])
    /\ IsSucceeded(results[2])
    /\ Len(ret.val.errors) = 1
    /\ Range(results[2].result.val) \subseteq table

\* C21: backfill_missing reports dates_checked = the number of dates of the
\* inclusive range, dates_with_gaps = the number of distinct dates with at
\* least one (date, zone) pair below 24 rows, and for every gap pair
\* missing_hours = 24 - the rows stored for it, between 1 and 24.
C21_BackfillCounts ==
    GapsFound =>
        LET Count(d, z) == Cardinality(RowsOn(table_start, d, z))
            found == summary.gaps_found
        IN  /\ summary.dates_checked = Cardinality(RequestDates)
            /\ summary.dates_with_gaps =
                   Cardinality({d \in RequestDates :
                       \E z \in RequestZones : Count(d, z) < DayHours})
            /\ \A i \in 1..Len(found) :
                   /\ found[i][3] = DayHours - Count(found[i][1], found[i][2])
                   /\ found[i][3] >= 1
                   /\ found[i][3] <= DayHours

\* a two-day range for one zone with 20 rows on the first day and 24 on the
\* second: dates_checked = 2, dates_with_gaps = 1, missing_hours = 4
C21_Witness ==
    /\ GapsFound
    /\ summary.dates_checked = 2
    /\ summary.dates_with_gaps = 1
    /\ summary.gaps_found = <<(<<Today, 1, 4>>)>>
\* ---- the Periods handled by extract_prices, described from their fields

ResolutionMinutes ==
    ("PT15M" :> 15) @@ ("PT30M" :> 30) @@ ("PT60M" :> 60) @@ ("PT1H" :> 60)
    @@ ("PT20M" :> 20)

Handled == 1..Len(normalized)

\* the interval and the resolution of the Period parse
WellFormed(period) ==
    /\ period.time_interval.start # None
    /\ period.time_interval.end # None
    /\ period.resolution \in DOMAIN ResolutionMinutes

StartOf(period) == period.time_interval.start.val

StepOf(period) == ResolutionMinutes[period.resolution]

\* floor((end - start) / resolution)
ExpectedCount(period) ==
    (period.time_interval.end.val - StartOf(period)) \div StepOf(period)

Positions(period) ==
    {period.points[i].position : i \in 1..Len(period.points)}

AmountAt(period, pos) ==
    LET i == CHOOSE k \in 1..Len(period.points) : period.points[k].position = pos
    IN  period.points[i].price_amount

\* the amount in EUR/MWh as a price per kWh
Kwh(amount) == (amount * Pow10(DecimalPlaces)) \div 1000

\* the nearest present position at or below p
NearestBelow(period, p) ==
    CHOOSE q \in Positions(period) :
        /\ q <= p
        /\ \A r \in Positions(period) : r <= p => r <= q

HourOf(t) == (t \div 60) * 60

\* the hours covered by the expected positions of the Period
HoursCovered(period) ==
    {HourOf(StartOf(period) + StepOf(period) * (p - 1)) :
        p \in 1..ExpectedCount(period)}

C23_ForwardFillValues ==
    \A i \in Handled :
        LET e == normalized[i]
            n == ExpectedCount(e.period)
        IN  (e.filled # None /\ e.filled.ok) =>
                /\ Len(e.filled.val) = n
                /\ \A p \in 1..n :
                       /\ e.filled.val[p].timestamp =
                              StartOf(e.period) + StepOf(e.period) * (p - 1)
                       /\ e.filled.val[p].price_kwh =
                              Kwh(AmountAt(e.period, NearestBelow(e.period, p)))

\* position 3 is missing and takes the value of position 2, which differs
\* from that of position 1
C23_Witness ==
    \E i \in Handled :
        LET e == normalized[i]
        IN  /\ e.filled # None
            /\ e.filled.ok
            /\ ExpectedCount(e.period) >= 3
            /\ {1, 2} \subseteq Positions(e.period)
            /\ 3 \notin Positions(e.period)
            /\ AmountAt(e.period, 1) # AmountAt(e.period, 2)
            /\ e.filled.val[3].price_kwh = Kwh(AmountAt(e.period, 2))

IsMissingFirst(res) == ~res.ok /\ res.kind = "MissingFirstPeriod"

\* C24 (as stated): validate_and_fill_period, given a Period whose interval
\* and resolution parse, fails with MissingFirstPeriod exactly when the
\* Period's points do not include position 1.
C24_MissingFirstAlways ==
    \A i \in Handled :
        LET e == normalized[i]
        IN  WellFormed(e.period) =>
                ((1 \notin Positions(e.period)) <=> IsMissingFirst(e.result))

\* C24 (amended): when the interval and the resolution of a Period parse and
\* at least one position is expected, validate_and_fill_period fails with
\* MissingFirstPeriod exactly when the points do not include position 1; the
\* error is what extract_prices returns, so no price is emitted or stored;
\* MissingFirstPeriod is raised in no other situation.
C24_MissingFirstWhenExpected ==
    \A i \in Handled :
        LET e == normalized[i]
            expects == WellFormed(e.period) /\ ExpectedCount(e.period) >= 1
        IN  /\ expects =>
                ((1 \notin Positions(e.period)) <=> IsMissingFirst(e.result))
            /\ IsMissingFirst(e.result) =>
                /\ expects
                /\ extracted = e.result
                /\ nPc = "done"
                /\ stored = None
                /\ table = {}

\* positions 2 and 3 are present, position 1 is not
C24_Witness ==
    \E i \in Handled :
        LET e == normalized[i]
        IN  /\ WellFormed(e.period)
            /\ Positions(e.period) = {2, 3}
            /\ ExpectedCount(e.period) >= 3
            /\ IsMissingFirst(e.result)
            /\ extracted = e.result

\* the forward-filled points of the hour h
InHour(e, h) ==
    {p \in 1..Len(e.filled.val) : HourOf(e.filled.val[p].timestamp) = h}

RECURSIVE SumOver(_, _)
SumOver(e, ps) ==
    IF ps = {} THEN 0
    ELSE LET p == CHOOSE q \in ps : TRUE
         IN  e.filled.val[p].price_kwh + SumOver(e, ps \ {p})

Aggregated(e) ==
    /\ e.period.resolution \in {"PT15M", "PT30M"}
    /\ e.filled # None
    /\ e.filled.ok
    /\ e.result.ok

\* one record per hour holding a point, in ascending order of timestamp
OnePerHour(e) ==
    LET out == e.result.val
    IN  /\ {out[k].timestamp : k \in 1..Len(out)} = HoursCovered(e.period)
        /\ Len(out) = Cardinality(HoursCovered(e.period))
        /\ \A k \in 1..(Len(out) - 1) : out[k].timestamp < out[k + 1].timestamp

\* C25 (as stated): for a PT15M or PT30M Period the aggregation emits one
\* record per hour holding a point, in ascending order, and its price_kwh is
\* the arithmetic mean of the prices of the points of that hour.
C25_ExactMean ==
    \A i \in Handled :
        LET e == normalized[i]
            out == e.result.val
        IN  Aggregated(e) =>
                /\ OnePerHour(e)
                /\ \A k \in 1..Len(out) :
                       LET ps == InHour(e, out[k].timestamp)
                       IN  out[k].price_kwh * Cardinality(ps) = SumOver(e, ps)

\* C25 (amended): ... and its price_kwh is the arithmetic mean of the
\* price_kwh of the points of that hour rounded to the last digit the Decimal
\* holds: the mean itself when the hour holds 1, 2 or 4 points.
C25_RoundedMean ==
    \A i \in Handled :
        LET e == normalized[i]
            out == e.result.val
        IN  Aggregated(e) =>
                /\ OnePerHour(e)
                /\ \A k \in 1..Len(out) :
                       LET ps == InHour(e, out[k].timestamp)
                           n == Cardinality(ps)
                           diff == out[k].price_kwh * n - SumOver(e, ps)
                       IN  /\ n >= 1
                           /\ 2 * diff <= n
                           /\ 2 * diff >= -n
                           /\ n \in {1, 2, 4} => diff = 0

\* a PT15M Period of two full hours whose first hour holds the amounts
\* 1, 2, 2, 2: the record of that hour is 1.75 EUR/MWh
C25_Witness ==
    \E i \in Handled :
        LET e == normalized[i]
        IN  /\ Aggregated(e)
            /\ e.period.resolution = "PT15M"
            /\ StartOf(e.period) = 0
            /\ ExpectedCount(e.period) = 8
            /\ Positions(e.period) = {1, 2}
            /\ AmountAt(e.period, 1) = 1
            /\ AmountAt(e.period, 2) = 2
            /\ Len(e.result.val) = 2
            /\ 4 * e.result.val[1].price_kwh = 7 * Kwh(1)
            /\ e.result.val[2].price_kwh = Kwh(2)

SubHourly == {"PT15M", "PT30M", "PT20M"}

\* C26: every price produced by normalizing a PT15M or PT30M Period has
\* resolution PT60M, and no record of the upsert batch or of the price table
\* has a sub-hourly resolution.
C26_ResolutionCanonical ==
    /\ \A i \in Handled :
           LET e == normalized[i]
           IN  (e.period.resolution \in {"PT15M", "PT30M"} /\ e.result.ok) =>
                   \A k \in 1..Len(e.result.val) :
                       e.result.val[k].resolution = "PT60M"
    /\ (extracted # None /\ extracted.ok) =>
           \A k \in 1..Len(extracted.val) :
               extracted.val[k].resolution \notin SubHourly
    /\ \A r \in table : r.resolution \notin SubHourly

\* the prices of a PT30M Period have been stored
C26_Witness ==
    /\ nPc = "done"
    /\ stored # None
    /\ stored.ok
    /\ table # {}
    /\ \E i \in Handled :
           /\ normalized[i].period.resolution = "PT30M"
           /\ normalized[i].result.ok
           /\ Len(normalized[i].result.val) = 2

\* C27: every Price emitted by the normalizer, and every row stored, has a
\* timestamp on an hour boundary.
C27_HourAligned ==
    /\ \A i \in Handled :
           normalized[i].result.ok =>
               \A k \in 1..Len(normalized[i].result.val) :
                   normalized[i].result.val[k].timestamp % 60 = 0
    /\ \A r \in table : r.timestamp % 60 = 0

\* the upsert of the extracted prices was attempted on an available database
StoreAttempted ==
    /\ nPc = "done"
    /\ extracted # None
    /\ extracted.ok
    /\ stored # None
    /\ stored.ok \/ stored.kind # "upsert_prices: connection"

\* C30: when one response holds the same hour in two Periods, both records
\* reach the upsert batch, the upsert succeeds and exactly one row remains
\* for the key, holding the value written last.
C30_DuplicateHoursResolved ==
    (StoreAttempted /\ HasDuplicateKey(extracted.val)) =>
        /\ stored.ok
        /\ \A k \in 1..Len(extracted.val) :
               LET rows == {r \in table : Key(r) = Key(extracted.val[k])}
                   last == CHOOSE j \in 1..Len(extracted.val) :
                               /\ Key(extracted.val[j]) = Key(extracted.val[k])
                               /\ \A m \in 1..Len(extracted.val) :
                                      Key(extracted.val[m]) = Key(extracted.val[k])
                                          => m <= j
               IN  rows = {extracted.val[last]}

\* the latest attempt received a 200 response whose body was read, and
\* parse_response was called on it
Parsed ==
    /\ exchange # None
    /\ events # <<>>
    /\ IsCall(Len(events))
    /\ rZone.tz_ok
    /\ exchange.send = "ok"
    /\ exchange.status = 200
    /\ exchange.body.read_ok

\* C28: a body that decodes as a Publication gives the result of its
\* extraction, whatever the Acknowledgement decoder would make of it; a body
\* that decodes only as an Acknowledgement gives an empty price list when a
\* reason has code 999 and InvalidResponse otherwise; a body that decodes as
\* neither gives XmlParseError.
C28_ResponseClassification ==
    Parsed =>
        LET body == exchange.body
            res == LastEvent.res
        IN  /\ body.publication # "undecodable" =>
                   /\ res.ok <=> body.publication \in {"prices", "empty"}
                   /\ res.ok => res.val = body.publication
                   /\ ~res.ok => res.kind \in {"InvalidResolution",
                                    "TimestampParseError", "MissingFirstPeriod"}
            /\ (body.publication = "undecodable" /\ body.acknowledgement # None) =>
                   IF "999" \in Range(body.acknowledgement.val)
                   THEN res = Ok("empty")
                   ELSE ~res.ok /\ res.kind = "InvalidResponse"
            /\ (body.publication = "undecodable" /\ body.acknowledgement = None) =>
                   ~res.ok /\ res.kind = "XmlParseError"

\* an Acknowledgement whose second reason has code 999: an empty list
C28_Witness ==
    /\ Parsed
    /\ exchange.body.publication = "undecodable"
    /\ exchange.body.acknowledgement # None
    /\ exchange.body.acknowledgement.val = <<"B08", "999">>
    /\ rResult = Ok("empty")

\* ---- the scheduler

\* what the spec schedules at each hour of the Europe/Oslo day
ExpectedJob(hour) ==
    CASE hour = 13 -> [job_name |-> "primary_fetch_13:00",
                       operation |-> "fetch_all_prices"]
      [] hour = 14 -> [job_name |-> "retry_1_14:00",
                       operation |-> "fetch_tomorrow_if_missing"]
      [] hour = 15 -> [job_name |-> "retry_2_15:00",
                       operation |-> "fetch_tomorrow_if_missing"]
      [] hour = 16 -> [job_name |-> "retry_3_16:00",
                       operation |-> "fetch_tomorrow_if_missing"]

StartedOf(job_name) ==
    Cardinality({i \in 1..Len(started) : started[i].job_name = job_name})

Recorded(execs, job_name) ==
    execs[<<job_name, "success">>] + execs[<<job_name, "failure">>]

SchedState ==
    /\ \A i \in 1..Len(started) :
           /\ started[i].hour \in 13..16
           /\ started[i].job_name = ExpectedJob(started[i].hour).job_name
           /\ started[i].operation = ExpectedJob(started[i].hour).operation
    /\ \A i, j \in 1..Len(started) :
           (started[i].day = started[j].day /\ started[i].hour = started[j].hour)
               => i = j
    /\ \A job_name \in Range(SchedJobs) :
           /\ Recorded(executions, job_name) + running[job_name]
                  = StartedOf(job_name)
           /\ durations[job_name] = Recorded(executions, job_name)

SchedStep ==
    /\ IF clock' # clock /\ clock' \in 13..16
       THEN /\ Len(started') = Len(started) + 1
            /\ SubSeq(started', 1, Len(started)) = started
            /\ started'[Len(started')].day = day'
            /\ started'[Len(started')].hour = clock'
       ELSE started' = started
    /\ \A job_name \in Range(SchedJobs) :
           IF running'[job_name] < running[job_name]
           THEN /\ running'[job_name] = running[job_name] - 1
                /\ Recorded(executions', job_name)
                       = Recorded(executions, job_name) + 1
                /\ durations'[job_name] = durations[job_name] + 1
           ELSE /\ executions'[<<job_name, "success">>]
                       = executions[<<job_name, "success">>]
                /\ executions'[<<job_name, "failure">>]
                       = executions[<<job_name, "failure">>]
                /\ durations'[job_name] = durations[job_name]

\* C29: each tick (13:00, 14:00, 15:00, 16:00 Europe/Oslo) starts exactly one
\* operation, fetch_all_prices at 13:00 and fetch_tomorrow_if_missing at the
\* others; every execution that returns records exactly one success or
\* failure and one duration under its job name; the ticks fire whatever
\* failures were recorded before.
C29_SchedulerTicks == []SchedState /\ [][SchedStep]_vars

\* the 13:00 job failed before 14:00, and the 14:00 job ran and succeeded
C29_Witness ==
    /\ executions[<<"primary_fetch_13:00", "failure">>] = 1
    /\ executions[<<"retry_1_14:00", "success">>] = 1
    /\ \E i \in 1..Len(started) :
           /\ started[i].job_name = "retry_1_14:00"
           /\ started[i].operation = "fetch_tomorrow_if_missing"
           /\ started[i].failures_before = 1

\* ---- the rate limiter under concurrent callers --------------------------

\* C31: the rate limiter's mutex is owned only by a task that is between
\* lock().await and the end of the try_acquire block: no task owns it while
\* it sleeps in the acquire loop, waits for a permit it already has to be
\* used, or waits for the upstream's response, so a task waiting for the lock
\* is never kept out by a sleeping one.
C31_MutexOnlyDuringTryAcquire ==
    /\ holder = 0 \/ (holder \in Callers /\ callers[holder].pc = "try")
    /\ \A c \in Callers :
           callers[c].pc \in {"sleep", "permit", "sent"} => holder # c

\* one task sleeps in the acquire loop while another one owns the mutex and
\* is about to run try_acquire
C31_Witness ==
    \E c \in Callers : \E k \in Callers :
        /\ c # k
        /\ callers[c].pc = "sleep"
        /\ callers[k].pc = "try"
        /\ holder = k

\* the outcome labels of the fetch metrics: "success" and the error types
OutcomeLabels ==
    {"success", "rate_limited", "temporary", "invalid_response", "parse_error",
     "no_data", "http_error", "invalid_resolution", "timestamp_parse_error"}

\* C33: every call of fetch_day_ahead_prices that has returned recorded,
\* after its "started" event, exactly one duration observation and exactly
\* one outcome event (success or one error type), whatever its outcome.
C33_OutcomeEventPerCall ==
    \A c \in Callers :
        callers[c].pc = "returned" =>
            /\ Len(callers[c].metrics) = 3
            /\ callers[c].metrics[1] = "started"
            /\ callers[c].metrics[2] = "duration"
            /\ callers[c].metrics[3] \in OutcomeLabels

\* C35: in every reachable state the number of GET requests sent to the
\* upstream, over all tasks and all their calls, is at most the number of
\* permits the shared bucket has granted.
C35_RequestsWithinPermits == traffic.requests <= traffic.permits

\* three requests have been sent, one of them by a task's second call, and
\* some call had to wait for its permit
C35_Witness ==
    /\ traffic.requests >= 3
    /\ traffic.waits >= 1
    /\ \E c \in Callers : callers[c].calls = 2 /\ callers[c].pc = "sent"

\* a step in which task c leaves the try_acquire block
LeavesTryAcquire(c) == callers[c].pc = "try" /\ callers'[c].pc # "try"

TokensInRange == 0 <= tokens /\ tokens <= max_tokens

TryAcquireStepEffect ==
    \A c \in Callers :
        LeavesTryAcquire(c) =>
            LET filled == refill(tokens, max_tokens, now - last_refill)
            IN  /\ callers'[c].pc = "permit" =>
                       /\ filled >= TokenUnit
                       /\ tokens' = filled - TokenUnit
                /\ callers'[c].pc # "permit" =>
                       /\ tokens' = filled
                       /\ tokens' >= tokens
                       /\ traffic'.permits = traffic.permits

\* C36: in every reachable state 0 <= tokens <= max_tokens; a try_acquire
\* that grants a permit leaves the refilled count less exactly one token, and
\* one that grants none leaves the refilled count, never less than before.
C36_TokensWithinCapacity == []TokensInRange /\ [][TryAcquireStepEffect]_vars

\* a try_acquire found part of a token after a partial refill and granted
\* nothing: the count is strictly between 0 and one token while a task sleeps
C36_Witness ==
    /\ 0 < tokens
    /\ tokens < TokenUnit
    /\ traffic.permits >= 1
    /\ \E c \in Callers : callers[c].pc = "sleep"

InAcquire(c) == callers[c].pc \in {"lock", "try", "sleep"}

\* C37 as stated: for every configured rate, every call that entered
\* acquire_rate_limit_permit eventually holds a permit.
C37_AcquireTerminatesAnyRate ==
    \A c \in Callers : InAcquire(c) ~> (callers[c].pc = "permit")

\* C37: for every configured rate of at least one request per minute, under
\* fair scheduling and advancing time, every call that entered
\* acquire_rate_limit_permit eventually holds a permit.
C37_AcquireTerminates ==
    \A c \in Callers :
        (InAcquire(c) /\ max_tokens >= TokenUnit) ~> (callers[c].pc = "permit")

\* with one request per minute every call of every task has returned, and
\* some of them had to sleep for their permit
C37_Witness ==
    /\ max_tokens = TokenUnit
    /\ traffic.waits >= 1
    /\ traffic.permits = NCallers * MaxCalls
    /\ \A c \in Callers : callers[c].pc = "returned"

\* ---- the backoff of the retry loop ---------------------------------------

\* the backoff sleeps of the call so far, in order
SleepsSoFar == SelectSeq(events, LAMBDA e : e.ev = "sleep")

\* the position in `events` of the k-th sleep
SleepIndex(k) ==
    CHOOSE i \in 1..Len(events) :
        /\ events[i].ev = "sleep"
        /\ Cardinality({n \in 1..i : events[n].ev = "sleep"}) = k

\* min(1000 * 2^i, 60000), the capped delay after failed attempt i
CappedDelay(i) == Min(1000 * 2^i, 60000)

\* C32: the sleep after failed attempt i (0-based) follows a transient
\* failure of attempt i, with i in {0, 1, 2}, and lasts at least
\* capped_i = min(1000 * 2^i, 60000) ms and less than 1.2 * capped_i ms; so
\* the waits lie in [1000, 1200), [2000, 2400) and [4000, 4800) ms and none
\* exceeds 72 s.
C32_BackoffBounds ==
    /\ Len(SleepsSoFar) <= 3
    /\ \A k \in 1..Len(SleepsSoFar) :
           LET ms == SleepsSoFar[k].ms
               before == events[SleepIndex(k) - 1]
           IN  /\ before.ev = "call"
               /\ ~before.res.ok
               /\ before.res.at = k
               /\ CappedDelay(k - 1) <= ms
               /\ 10 * ms < 12 * CappedDelay(k - 1)
               /\ ms <= 72000
    /\ Len(SleepsSoFar) >= 1 =>
           SleepsSoFar[1].ms >= 1000 /\ SleepsSoFar[1].ms < 1200
    /\ Len(SleepsSoFar) >= 2 =>
           SleepsSoFar[2].ms >= 2000 /\ SleepsSoFar[2].ms < 2400
    /\ Len(SleepsSoFar) >= 3 =>
           SleepsSoFar[3].ms >= 4000 /\ SleepsSoFar[3].ms < 4800

\* a call that slept three times: with the largest jitter after the first
\* failure, half of it after the second and none after the third
C32_Witness ==
    /\ Len(SleepsSoFar) = 3
    /\ SleepsSoFar[1].ms = 1199
    /\ SleepsSoFar[2].ms = 2200
    /\ SleepsSoFar[3].ms = 4000

\* ---- the fetch log and the zone registry --------------------------------

\* C34: every fetch-log row closed with status success or nodata has a null
\* error_message; a row with a recorded error has status error.
C34_NoErrorOnSuccessRows ==
    \A i \in 1..Len(fetch_log) :
        fetch_log[i].status \in {"success", "nodata"} =>
            fetch_log[i].error_message = None

\* the zones for which the running operation has called the client
RequestedOf == inflight \cup {results[i].zone : i \in 1..Len(results)}

\* the filter of the running backfill names no active zone
FilterMatchesNoActiveZone ==
    /\ request # None
    /\ request.zone_filter # None
    /\ request.zone_filter.val \cap active = {}

\* C38: every zone a client request is issued for is active in the registry,
\* in fetch_all_prices, fetch_tomorrow_if_missing and backfill_missing with
\* any filter; a backfill whose filter names no active zone returns an error
\* without a client call and without a write.
C38_OnlyActiveZonesFetched ==
    /\ RequestedOf \subseteq active
    /\ (op = "backfill" /\ pc = "done" /\ FilterMatchesNoActiveZone) =>
           /\ ret # None
           /\ ~ret.ok
           /\ results = <<>>
           /\ upserts = <<>>
           /\ table = table_start
           /\ fetch_log = <<>>

\* a backfill whose filter names an active zone and an unknown one has
\* fetched the active one while another zone of the registry is inactive
C38_Witness ==
    /\ op = "backfill"
    /\ pc = "done"
    /\ request.zone_filter = Some({1, 99})
    /\ active = {1}
    /\ RequestedOf = {1}
    /\ ret.ok

\* ---- retry ticks ---------------------------------------------------------

\* the running invocation of fetch_tomorrow_if_missing changed nothing: no
\* client call, no fetch-log row, no upsert
TickIsNoOp ==
    /\ results = <<>>
    /\ inflight = {}
    /\ upserts = <<>>
    /\ fetch_id = 0
    /\ table = table_start

\* C39: once an invocation of fetch_tomorrow_if_missing has stored a
\* non-empty list of prices fetched for tomorrow for zone z,
\* has_tomorrow_data(z) is true and no later retry tick of the same UTC day
\* issues a request for z; once this holds of every active zone, every
\* further retry tick is a no-op.
C39_RetryTicksConverge ==
    /\ \A z \in stored_zones : has_tomorrow_data(table, z)
    /\ op = "tomorrow" => RequestedOf \cap stored_zones = {}
    /\ (op = "tomorrow" /\ active \subseteq stored_zones) => TickIsNoOp

====
